---- MODULE Spec2Model ----
(***************************************************************************)
(* Model of the cross-view dataset scripts of ML_Percy:                    *)
(*   - BDAG/Scripts/image-manifest.py    (Manifest Builder)                *)
(*   - MK/Scripts/prepare-transgeo.py    (curation, episode split, zip)    *)
(*   - BDAG/Scripts/prepare-transgeo.py  (curation, random split, zip)     *)
(* Strings (keys, file names, coordinates) are sequences of one-character  *)
(* strings, so that Path(...).name, the regular expressions and Python's   *)
(* string comparison are computed, not assumed.                            *)
(***************************************************************************)
EXTENDS Integers, Sequences, FiniteSets, TLC

VARIABLES
    variant,          \* "MK" or "BDAG": which prepare-transgeo.py runs
    argv,             \* the command line as argparse parsed it (args before line 36)
    args,             \* parsed command line (argparse namespace)
    disk,             \* keys whose image file exists under aerial_root / ground_root
    manifest_file,    \* the manifest JSON file named on the command line
    manifest,         \* the manifest dictionary: [aerial |-> ..., ground |-> ...]
    pruned,           \* the calls made to remove_aerial_image / remove_ground_image
    pc,               \* position in the script
    idx,              \* position of the running for-loop (capping loop, builder loops)
    panorama_sample,  \* last value of the local panorama_sample
    aerial_images,    \* aerial keys written to the archive
    ground_images,    \* ground keys written to the archive
    sols,             \* MK: list of training sols
    sols_in_training, \* MK: number of sols drawn for training
    train_set,        \* ground keys of the train split, in iteration order
    test_set,         \* ground keys of the test split, in iteration order
    train_string,     \* text written to the train split file (tokens)
    test_string,      \* text written to the test split file (tokens)
    zf,               \* names of the archive members written so far
    files,            \* Manifest Builder: the directory listings (glob results)
    stderr,           \* Manifest Builder: the paths named in "Skipping image" messages
    output,           \* Manifest Builder, correlation script: what json.dump wrote (<<>> before)
    image_correspondences  \* correlation script: the dictionary of the same name

vars == <<variant, argv, args, disk, manifest_file, manifest, pruned, pc, idx, panorama_sample, aerial_images,
          ground_images, sols, sols_in_training, train_set, test_set, train_string,
          test_string, zf, files, stderr, output, image_correspondences>>

(***************************************************************************)
(* Bounds                                                                  *)
(***************************************************************************)
\* largest --max-positive-panoramas tried
MaxCap == 2
\* number of aerial tiles of the manifests with any classification
NumTiles == 3
\* Manifest Builder: most files in the aerial directory, files in the ground tree
MaxAerialFiles == 2
NumGroundFiles == 2
\* number of aerial tiles of the manifests that hold distractions only
NumDistractions == 5
\* most sols of a manifest whose number of training sols is computed
MaxSols == 50

(***************************************************************************)
(* Generic helpers                                                         *)
(***************************************************************************)
Range(s) == {s[j] : j \in 1..Len(s)}

Contains(s, x) == \E j \in 1..Len(s) : s[j] = x

\* sequences over S of length n without repetition
RECURSIVE Arrangements(_, _)
Arrangements(S, n) ==
    IF n = 0 THEN {<<>>}
    ELSE UNION {{<<x>> \o t : t \in Arrangements(S \ {x}, n - 1)} : x \in S}

RECURSIVE Concat(_)
Concat(ss) == IF ss = <<>> THEN <<>> ELSE Head(ss) \o Concat(Tail(ss))

(***************************************************************************)
(* Strings                                                                 *)
(***************************************************************************)
Digits == {"0", "1", "2", "3", "4", "5", "6", "7", "8", "9"}

DigitVal(c) == CASE c = "0" -> 0 [] c = "1" -> 1 [] c = "2" -> 2 [] c = "3" -> 3
                 [] c = "4" -> 4 [] c = "5" -> 5 [] c = "6" -> 6 [] c = "7" -> 7
                 [] c = "8" -> 8 [] c = "9" -> 9

\* int("dddd")
RECURSIVE IntOf(_)
IntOf(s) == IF s = <<>> THEN 0
            ELSE 10 * IntOf(SubSeq(s, 1, Len(s) - 1)) + DigitVal(s[Len(s)])

\* Path(key).name: what follows the last "/"
PathName(key) ==
    LET slashes == {j \in 1..Len(key) : key[j] = "/"}
        last == IF slashes = {} THEN 0
                ELSE CHOOSE j \in slashes : \A k \in slashes : k <= j
    IN SubSeq(key, last + 1, Len(key))

\* name.count(" ")
CountSpaces(name) == Cardinality({j \in 1..Len(name) : name[j] = " "})

\* re.findall('_\d{4}_', key): start positions of the matches (the first decides)
SolMatches(key) ==
    {j \in 1..Len(key) : /\ j + 5 <= Len(key)
                         /\ key[j] = "_"
                         /\ \A k \in 1..4 : key[j + k] \in Digits
                         /\ key[j + 5] = "_"}

HasSol(key) == SolMatches(key) # {}

\* int(re.findall('_\d{4}_', key)[0][1:][:-1])
SolNum(key) ==
    LET first == CHOOSE j \in SolMatches(key) : \A k \in SolMatches(key) : j <= k
    IN IntOf(SubSeq(key, first + 1, first + 4))

(***************************************************************************)
(* Python floats (IEEE 754 binary64), for the non-negative values the      *)
(* proportions take.  A natural number of any size is the sequence of its  *)
(* bits, lowest first, <<>> being 0; a float is m * 2^e with m of at most   *)
(* MantissaBits bits.                                                      *)
(***************************************************************************)
MantissaBits == 53
\* the fraction of a decimal is developed in FractionDigits digits of DigitBits bits
DigitBits == 15
FractionDigits == 5

\* without the zeros above the highest 1
Trim(b) ==
    LET ones == {j \in 1..Len(b) : b[j] = 1}
    IN IF ones = {} THEN <<>>
       ELSE SubSeq(b, 1, CHOOSE j \in ones : \A k \in ones : k <= j)

\* the bits of a machine integer n >= 0
BitsOf(n) == Trim([j \in 1..31 |-> (n \div 2 ^ (j - 1)) % 2])

\* the machine integer of a few bits
RECURSIVE NatOf(_)
NatOf(b) == IF b = <<>> THEN 0 ELSE b[1] + 2 * NatOf(Tail(b))

BitAt(b, j) == IF j <= Len(b) THEN b[j] ELSE 0

Zeros(k) == [j \in 1..k |-> 0]

\* a + b: the carry into position j comes from a position below that generates
\* it, through positions that propagate it
AddBits(a, b) ==
    LET n == (IF Len(a) > Len(b) THEN Len(a) ELSE Len(b)) + 1
        carry(j) == \E i \in 1..(j - 1) :
                        /\ BitAt(a, i) = 1 /\ BitAt(b, i) = 1
                        /\ \A k \in (i + 1)..(j - 1) : BitAt(a, k) = 1 \/ BitAt(b, k) = 1
    IN Trim([j \in 1..n |->
                (BitAt(a, j) + BitAt(b, j) + (IF carry(j) THEN 1 ELSE 0)) % 2])

\* a - b, for a >= b: the borrow, likewise
SubBits(a, b) ==
    LET borrow(j) == \E i \in 1..(j - 1) :
                         /\ BitAt(a, i) = 0 /\ BitAt(b, i) = 1
                         /\ \A k \in (i + 1)..(j - 1) : BitAt(a, k) <= BitAt(b, k)
    IN Trim([j \in 1..Len(a) |->
                (BitAt(a, j) + BitAt(b, j) + (IF borrow(j) THEN 1 ELSE 0)) % 2])

\* a * n for a machine integer n >= 0
RECURSIVE MulSmall(_, _)
MulSmall(a, n) ==
    IF n = 0 \/ a = <<>> THEN <<>>
    ELSE AddBits(IF n % 2 = 1 THEN a ELSE <<>>, <<0>> \o MulSmall(a, n \div 2))

\* the float nearest to b * 2^e, ties to even
RECURSIVE RoundFloat(_, _)
RoundFloat(b, e) ==
    IF Len(b) <= MantissaBits THEN [m |-> b, e |-> e]
    ELSE LET k == Len(b) - MantissaBits
             kept == SubSeq(b, k + 1, Len(b))
             sticky == \E j \in 1..(k - 1) : b[j] = 1
             up == b[k] = 1 /\ (sticky \/ kept[1] = 1)
         IN RoundFloat(IF up THEN AddBits(kept, <<1>>) ELSE kept, e + k)

\* long division of num / den: the remainder before fraction digit j
RECURSIVE RemainderAt(_, _)
RemainderAt(p, j) ==
    IF j = 1 THEN p[1] % p[2] ELSE (RemainderAt(p, j - 1) * 2 ^ DigitBits) % p[2]

\* fraction digit j of num / den, as DigitBits bits
FractionDigit(p, j) ==
    LET digit == (RemainderAt(p, j) * 2 ^ DigitBits) \div p[2]
    IN [k \in 1..DigitBits |-> (digit \div 2 ^ (k - 1)) % 2]

\* float("num/den" written as a decimal), for 2^-19 <= num/den or num = 0, and
\* den < 2^16; a last bit says whether the division left a remainder
FloatOf(p) ==
    LET digits == [j \in 1..(FractionDigits * DigitBits) |->
                      FractionDigit(p, FractionDigits - ((j - 1) \div DigitBits))
                                   [((j - 1) % DigitBits) + 1]]
        inexact == IF RemainderAt(p, FractionDigits + 1) = 0 THEN 0 ELSE 1
    IN RoundFloat(Trim(<<inexact>> \o digits \o BitsOf(p[1] \div p[2])),
                  0 - (FractionDigits * DigitBits) - 1)

\* 1 - f, for a float 0 <= f <= 1
FloatOneMinus(f) ==
    IF f.m = <<>> THEN [m |-> <<1>>, e |-> 0]
    ELSE IF f.e >= 0 THEN [m |-> <<>>, e |-> 0]
    ELSE RoundFloat(SubBits(Zeros(0 - f.e) \o <<1>>, f.m), f.e)

\* f * n, for a float f and an int n >= 0
FloatTimes(f, n) == RoundFloat(MulSmall(f.m, n), f.e)

\* int(f): the integer part
IntOfFloat(f) ==
    IF f.e >= 0 THEN NatOf(f.m) * (2 ^ f.e)
    ELSE IF Len(f.m) <= 0 - f.e THEN 0
    ELSE NatOf(SubSeq(f.m, 1 - f.e, Len(f.m)))

(***************************************************************************)
(* Keys of the manifests tried                                             *)
(***************************************************************************)
T1 == <<"t", "1">>
T2 == <<"t", "2">>
T3 == <<"t", "3">>
T4 == <<"t", "4">>
TD == <<"d", "/", "t", "1">>                           \* same base name as T1
TS == <<"t", " ", "5">>                                \* space in the name
G1 == <<"_", "0", "0", "0", "1", "_", "a">>
G2 == <<"_", "0", "0", "0", "1", "_", "b">>            \* same sol as G1
G3 == <<"_", "0", "0", "0", "2", "_", "c">>
GD == <<"d", "/", "_", "0", "0", "0", "1", "_", "a">>  \* same base name as G1
GS == <<"_", "0", "0", "0", "2", "_", " ">>            \* space in the name
GN == <<"n">>                                          \* no sol segment
T5 == <<"t", "6">>
T6 == <<"t", "7">>

\* order of the keys in the manifest file (dictionaries keep insertion order)
AerialOrder == <<T1, T2, T3, T4, TD, TS, G1, T5, T6, GS>>
GroundOrder == <<G1, G2, G3, GD, GS, GN>>

(***************************************************************************)
(* Manifest dictionary                                                     *)
(***************************************************************************)
\* list(manifest["aerial"].keys())
AerialKeys(m) == SelectSeq(AerialOrder, LAMBDA k : k \in DOMAIN m.aerial)

\* list(manifest["ground"].keys())
GroundKeys(m) == SelectSeq(GroundOrder, LAMBDA k : k \in DOMAIN m.ground)

\* mutant: the last element is dropped, whatever it is
ListPop(list, x) == SubSeq(list, 1, Len(list) - 1)

\* list.remove(x): drops the first occurrence of x
ListRemove(list, x) ==
    LET first == CHOOSE j \in 1..Len(list) :
                     list[j] = x /\ \A k \in 1..(j - 1) : list[k] # x
    IN SubSeq(list, 1, first - 1) \o SubSeq(list, first + 1, Len(list))

\* mutant: only the positive list is scrubbed
ScrubPositiveOnly(item, key) ==
    [item EXCEPT !.positive = IF Contains(@, key) THEN ListRemove(@, key) ELSE @]

\* the body of the loops of remove_ground_image / remove_aerial_image
Scrub(item, key) ==
    [item EXCEPT !.positive = IF Contains(@, key) THEN ListRemove(@, key) ELSE @,
                 !.semi_positive = IF Contains(@, key) THEN ListRemove(@, key) ELSE @]

remove_ground_image(m, ground_key) ==
    [aerial |-> [a \in DOMAIN m.aerial |-> Scrub(m.aerial[a], ground_key)],
     ground |-> [g \in DOMAIN m.ground \ {ground_key} |-> m.ground[g]]]

remove_aerial_image(m, aerial_key) ==
    [aerial |-> [a \in DOMAIN m.aerial \ {aerial_key} |-> m.aerial[a]],
     ground |-> [g \in DOMAIN m.ground |-> Scrub(m.ground[g], aerial_key)]]

\* if k in manifest["aerial"]: remove_aerial_image(k)
\* elif k in manifest["ground"]: remove_ground_image(k)
RemoveEither(m, k) ==
    IF k \in DOMAIN m.aerial THEN remove_aerial_image(m, k)
    ELSE IF k \in DOMAIN m.ground THEN remove_ground_image(m, k)
    ELSE m

RECURSIVE RemoveAllEither(_, _)
RemoveAllEither(m, ks) ==
    IF ks = <<>> THEN m ELSE RemoveAllEither(RemoveEither(m, Head(ks)), Tail(ks))

RECURSIVE RemoveAllGround(_, _)
RemoveAllGround(m, ks) ==
    IF ks = <<>> THEN m ELSE RemoveAllGround(remove_ground_image(m, Head(ks)), Tail(ks))

RECURSIVE RemoveAllAerial(_, _)
RemoveAllAerial(m, ks) ==
    IF ks = <<>> THEN m ELSE RemoveAllAerial(remove_aerial_image(m, Head(ks)), Tail(ks))

\* the calls a list of keys makes in the if / elif of the two name passes
RECURSIVE CallsEither(_, _)
CallsEither(m, ks) ==
    IF ks = <<>> THEN {}
    ELSE LET k == Head(ks)
             call == IF k \in DOMAIN m.aerial THEN {[kind |-> "aerial", key |-> k]}
                     ELSE IF k \in DOMAIN m.ground THEN {[kind |-> "ground", key |-> k]}
                     ELSE {}
         IN call \cup CallsEither(RemoveEither(m, k), Tail(ks))

GroundCalls(ks) == {[kind |-> "ground", key |-> ks[j]] : j \in 1..Len(ks)}

AerialCalls(ks) == {[kind |-> "aerial", key |-> ks[j]] : j \in 1..Len(ks)}

(***************************************************************************)
(* Curation passes                                                         *)
(***************************************************************************)
\* image_names: the base names in order of first occurrence
RECURSIVE NamesInOrder(_)
NamesInOrder(ks) ==
    IF ks = <<>> THEN <<>>
    ELSE LET rest == NamesInOrder(SubSeq(ks, 1, Len(ks) - 1))
             n == PathName(ks[Len(ks)])
         IN IF Contains(rest, n) THEN rest ELSE Append(rest, n)

\* the keys the duplicate loop visits: v[1:] of every name with len(v) > 1
DuplicateKeys(m) ==
    LET ks == AerialKeys(m) \o GroundKeys(m)
        names == NamesInOrder(ks)
        v(n) == SelectSeq(ks, LAMBDA k : PathName(k) = n)
    IN Concat([j \in 1..Len(names) |->
                  IF Len(v(names[j])) > 1 THEN Tail(v(names[j])) ELSE <<>>])

RemoveDuplicates(m) == RemoveAllEither(m, DuplicateKeys(m))

\* mutant: only the aerial keys are looked at
SpaceKeysAerialOnly(m) ==
    SelectSeq(AerialKeys(m), LAMBDA k : CountSpaces(PathName(k)) > 0)

\* the keys of the snapshot list whose base name holds a space
SpaceKeys(m) ==
    SelectSeq(AerialKeys(m) \o GroundKeys(m), LAMBDA k : CountSpaces(PathName(k)) > 0)

RemoveSpaces(m) == RemoveAllEither(m, SpaceKeys(m))

\* mutant: the comparison is not strict
NonPanoramaInclusive(size, ratio) == size.w * ratio[2] <= ratio[1] * size.h

\* (w / h) < panorama_aspect_ratio, the ratio being num/den
NonPanorama(size, ratio) == size.w * ratio[2] < ratio[1] * size.h

NonPanoramaKeys(m, ratio) ==
    SelectSeq(GroundKeys(m), LAMBDA g : NonPanorama(m.ground[g].size, ratio))

RemoveNonPanoramas(m, ratio) == RemoveAllGround(m, NonPanoramaKeys(m, ratio))

\* mutant: the guard is off by one
OverCapOffByOne(v, positive, max) ==
    IF v = "MK" THEN max # 0 /\ Len(positive) > max + 1
    ELSE Len(positive) > max + 1

\* the condition that guards the capping of one tile
\* MK:   args.max_positive_panoramas and len(positive) > args.max_positive_panoramas
\* BDAG: len(positive) > args.max_positive_panoramas
OverCap(v, positive, max) ==
    IF v = "MK" THEN max # 0 /\ Len(positive) > max
    ELSE Len(positive) > max

\* mutant: no leftover is pruned, the tile's list is only cut
NoLeftovers(positive, sample) == <<>>

\* list(filter(lambda x: x not in panorama_sample, aerial_item["positive"]))
Leftovers(positive, sample) ==
    SelectSeq(positive, LAMBDA x : ~Contains(sample, x))

\* one iteration of the capping loop on tile a with the drawn sample
CapTile(m, a, sample) ==
    LET without == RemoveAllGround(m, Leftovers(m.aerial[a].positive, sample))
    IN [without EXCEPT !.aerial[a].positive = sample]

\* distractions: tiles with both lists empty
Distractions(m) ==
    SelectSeq(AerialKeys(m), LAMBDA x : m.aerial[x].positive = <<>>
                                        /\ m.aerial[x].semi_positive = <<>>)

\* mutant: the threshold is 2
FewSemiKeysBelowTwo(m) ==
    SelectSeq(GroundKeys(m), LAMBDA g : Len(m.ground[g].semi_positive) < 2)

\* ground images with fewer than 3 semi-positive tiles
FewSemiKeys(m) ==
    SelectSeq(GroundKeys(m), LAMBDA g : Len(m.ground[g].semi_positive) < 3)

RemoveFewSemi(m) == RemoveAllGround(m, FewSemiKeys(m))

(***************************************************************************)
(* Archive, split and split files                                          *)
(***************************************************************************)
\* keys of a listing whose file exists (the others are skipped with a message)
Existing(ks, present) == SelectSeq(ks, LAMBDA k : k \in present)

\* the zf.write calls of one image loop
ImageMembers(kind, ks) == [j \in 1..Len(ks) |-> [member |-> kind, name |-> PathName(ks[j])]]

\* MK: the distinct sols of the ground keys (every key must hold a sol segment)
SolSet(m) == {SolNum(g) : g \in DOMAIN m.ground}

\* mutant: the first len(sols) images go to train, whatever their sol
TrainByImage(m, s) == SubSeq(GroundKeys(m), 1, Len(s))

\* MK: train_set, the images whose sol is in sols
TrainBySol(m, s) == SelectSeq(GroundKeys(m), LAMBDA g : Contains(s, SolNum(g)))

\* MK: test_set, the other images
TestBySol(m, s) == SelectSeq(GroundKeys(m), LAMBDA g : ~Contains(s, SolNum(g)))

\* mutant: the test set is taken from the manifest, not from the archived images
TestFromManifest(m, archived, train) == DOMAIN m.ground \ train

\* BDAG: test_set = set(ground_images) - train_set
TestByDifference(m, archived, train) == Range(archived) \ train

\* the GeoTIFF: metres per tenth of a degree of its projection, the projected
\* coordinates of its upper left corner and the size of a pixel, in metres
MetresPerUnit == 6
RasterLeft == 10
RasterTop == 400
PixelSize == 4

\* t.transform(lon, lat): geographic to projected coordinates
transform(lon, lat) == <<lon * MetresPerUnit, lat * MetresPerUnit>>

\* src.index(x, y): (row, col) of the pixel that holds (x, y); rows count
\* downwards from the top edge
index(x, y) == <<(RasterTop - y) \div PixelSize, (x - RasterLeft) \div PixelSize>>

\* t_px(lon, lat): np.array([col, row])
t_px(lon, lat) ==
    LET xy == transform(lon, lat)
        row_col == index(xy[1], xy[2])
    IN <<row_col[2], row_col[1]>>

\* px_ground - px_aerial, element by element
ground_aerial_offset_px(lon_ground, lat_ground, lon_aerial, lat_aerial) ==
    LET px_ground == t_px(lon_ground, lat_ground)
        px_aerial == t_px(lon_aerial, lat_aerial)
    IN <<px_ground[1] - px_aerial[1], px_ground[2] - px_aerial[2]>>

\* d.values() of a "location" or "center" dictionary: the builder inserts "lon"
\* first, then "lat"
Values(d) == <<d.lon, d.lat>>

\* ground_aerial_offset_px(*ground_item["location"].values(),
\*                         *aerial_item["center"].values())
OffsetPx(ground_item, aerial_item) ==
    LET g == Values(ground_item.location)
        a == Values(aerial_item.center)
    IN ground_aerial_offset_px(g[1], g[2], a[1], a[2])

\* mutant: the two fields are written in the order of the array
OffsetTextAsStored(offset_px) == <<offset_px[1], offset_px[2]>>

\* f"{offset_px[1]} {offset_px[0]}": the two numbers written after a tile name
OffsetText(offset_px) == <<offset_px[2], offset_px[1]>>

\* mutant: no slice, every semi-positive tile is written
WholeList(list) == list

\* list[0:3]: the first three elements, or all of a shorter list
FirstThree(list) == SubSeq(list, 1, IF Len(list) < 3 THEN Len(list) ELSE 3)

\* the text written for one (ground image, positive tile) pair; strict is the
\* "less than 3 semi-positive ... skipping" branch of the MK train file, which
\* leaves the started line without its newline
PairText(m, g, a, strict) ==
    LET item == m.ground[g]
        head == [kind |-> "positive", ground_key |-> g, ground_name |-> PathName(g),
                 aerial_key |-> a, aerial_name |-> PathName(a),
                 offset |-> OffsetText(OffsetPx(item, m.aerial[a]))]
        first3 == FirstThree(item.semi_positive)
        semis == [j \in 1..Len(first3) |->
                     [kind |-> "semi", ground_key |-> g, ground_name |-> PathName(g),
                      aerial_key |-> first3[j], aerial_name |-> PathName(first3[j]),
                      offset |-> OffsetText(OffsetPx(item, m.aerial[first3[j]]))]]
        newline == [kind |-> "newline", ground_key |-> g, ground_name |-> PathName(g),
                    aerial_key |-> <<>>, aerial_name |-> <<>>, offset |-> <<>>]
    IN IF strict /\ Len(item.semi_positive) < 3 THEN <<head>>
       ELSE <<head>> \o semis \o <<newline>>

\* mutant: one line per ground image, for its first positive tile (none: no line)
ImageTextFirstOnly(m, g, strict) ==
    IF m.ground[g].positive = <<>> THEN <<>>
    ELSE PairText(m, g, m.ground[g].positive[1], strict)

\* the text written for one ground image: for positive_aerial in ground_item["positive"]
ImageText(m, g, strict) ==
    Concat([j \in 1..Len(m.ground[g].positive) |->
               PairText(m, g, m.ground[g].positive[j], strict)])

\* the whole split file
SplitText(m, set, strict) == Concat([j \in 1..Len(set) |-> ImageText(m, set[j], strict)])

(***************************************************************************)
(* Inputs: command lines, manifests and directory contents tried           *)
(***************************************************************************)
Classes == {"none", "positive", "semi"}

\* the place of a key in the manifest file
Position(order, k) == CHOOSE j \in 1..Len(order) : order[j] = k

\* coordinates in tenths of a degree: the tiles lie along a diagonal strip, the
\* ground images along a path that crosses it
CenterOf(a) ==
    LET j == Position(AerialOrder, a) IN [lon |-> 5 + 4 * j, lat |-> 60 - 3 * j]

LocationOf(g) ==
    LET j == Position(GroundOrder, g) IN [lon |-> 7 + 5 * j, lat |-> 50 - 2 * j]

\* the manifest of a classification cls of the pairs of gK x aK, with the lists
\* in the order image-manifest.py appends them
ManifestOf(aK, gK, cls, size) ==
    [aerial |-> [a \in aK |->
        [positive |-> SelectSeq(GroundOrder, LAMBDA g : g \in gK /\ cls[g, a] = "positive"),
         semi_positive |-> SelectSeq(GroundOrder, LAMBDA g : g \in gK /\ cls[g, a] = "semi"),
         center |-> CenterOf(a)]],
     ground |-> [g \in gK |->
        [positive |-> SelectSeq(AerialOrder, LAMBDA a : a \in aK /\ cls[g, a] = "positive"),
         semi_positive |-> SelectSeq(AerialOrder, LAMBDA a : a \in aK /\ cls[g, a] = "semi"),
         size |-> size[g],
         location |-> LocationOf(g)]]]

Wide == [w |-> 4, h |-> 1]
Double == [w |-> 2, h |-> 1]
Square == [w |-> 1, h |-> 1]

\* argparse defaults: -a 2.0 (MK) / 3.0 (BDAG), -d 1.0, -t 0.5
DefaultRatio(v) == IF v = "MK" THEN <<2, 1>> ELSE <<3, 1>>

ArgsOf(v, max, keep, train) ==
    [panorama_aspect_ratio |-> DefaultRatio(v), max_positive_panoramas |-> max,
     distraction_proportion |-> keep, train_proportion |-> train]

InputOf(v, a, present, m) == [variant |-> v, args |-> a, disk |-> present, manifest |-> m]

\* a run on input in, before its first statement
Loaded(in) ==
    /\ variant = in.variant
    /\ argv = in.args
    /\ args = in.args
    /\ disk = in.disk
    /\ manifest_file = in.manifest
    /\ manifest = [aerial |-> <<>>, ground |-> <<>>]
    /\ pruned = {}
    /\ pc = "start"
    /\ idx = 0
    /\ panorama_sample = <<>>
    /\ aerial_images = <<>>
    /\ ground_images = <<>>
    /\ sols = <<>>
    /\ sols_in_training = 0
    /\ image_correspondences = <<>>
    /\ train_set = <<>>
    /\ test_set = <<>>
    /\ train_string = <<>>
    /\ test_string = <<>>
    /\ zf = <<>>
    /\ files = <<>>
    /\ stderr = <<>>
    /\ output = <<>>

\* any classification of two ground images against the first tiles, with the
\* caps 0, 1 and the largest; the second image stands by the tiles T1..T3 and
\* corresponds to no tile further along
GraphInputs ==
    LET aK == {AerialOrder[j] : j \in 1..NumTiles}
        gK == {G1, G3}
    IN \E v \in {"MK", "BDAG"}, max \in {0, 1, MaxCap}, cls \in [gK \X aK -> Classes] :
          /\ \A a \in aK \ {T1, T2, T3} : cls[G3, a] = "none"
          /\ Loaded(InputOf(v, ArgsOf(v, max, <<1, 1>>, <<1, 2>>), aK \cup gK,
                            ManifestOf(aK, gK, cls, [g \in gK |-> Wide])))

\* duplicate base names, spaces, distractions, proportions; the second ground
\* image may be a narrow one
NameInputs ==
    \E aK \in {{T1, T2, TD}, {T1, TS, TD}, {T1, T2, G1}},
       gK \in {{G1, GD}, {G1, GS}, {G3, GN}} :
       \E v \in {"MK", "BDAG"}, keep \in {<<0, 1>>, <<1, 2>>, <<3, 2>>},
          cls \in [gK \X aK -> {"none", "positive"}], shape \in {Wide, Double} :
          Loaded(InputOf(v, ArgsOf(v, 1, keep, <<1, 2>>), aK \cup gK,
                         ManifestOf(aK, gK, cls,
                                    [g \in gK |-> IF g \in {G1, G3} THEN Wide ELSE shape])))

\* ground images with up to two positive and at least two semi-positive tiles,
\* files missing on disk, every train proportion
SplitInputs ==
    LET aK == {T1, T2, T3, T4}
    IN \E gK \in {{G1, G2, G3}, {G1, GN}} :
       \E v \in {"MK", "BDAG"}, train \in {<<0, 1>>, <<1, 2>>, <<1, 1>>, <<-1, 2>>},
          missing \in {{}, {G1}, {T1, G3}}, cls \in [gK \X aK -> {"positive", "semi"}],
          max \in {1, MaxCap + 1} :
          /\ \A g \in gK : cls[g, T3] = "semi" /\ cls[g, T4] = "semi"
          /\ Loaded(InputOf(v, ArgsOf(v, max, <<1, 1>>, train),
                            (aK \cup gK) \ missing,
                            ManifestOf(aK, gK, cls, [g \in gK |-> Wide])))

\* tiles without correspondence (one of them may have one), every kind of
\* distraction proportion, ground images of every shape
DistractionInputs ==
    LET order == <<T1, T2, T3, T4, T5, T6, TD>>
        aK == {order[j] : j \in 1..NumDistractions}
        gK == {G1, G3}
    IN \E v \in {"MK", "BDAG"}, keep \in {<<0, 1>>, <<1, 5>>, <<4, 5>>, <<1, 1>>},
          c \in {"none", "semi"}, size \in [gK -> {Wide, Double, Square}] :
          Loaded(InputOf(v, ArgsOf(v, 1, keep, <<1, 2>>), aK \cup gK,
                         ManifestOf(aK, gK, [q \in gK \X aK |->
                                                IF q = <<G1, T1>> THEN c ELSE "none"],
                                    size)))

\* a key with a space in its name that is in both maps, any classification
SharedKeyInputs ==
    LET aK == {T1, GS}
        gK == {G1, GS}
    IN \E v \in {"MK", "BDAG"}, cls \in [gK \X aK -> Classes] :
          Loaded(InputOf(v, ArgsOf(v, 1, <<1, 1>>, <<1, 2>>), aK \cup gK,
                         ManifestOf(aK, gK, cls, [g \in gK |-> Wide])))

\* a ground image with one positive and four semi-positive tiles, and one with
\* one positive and up to two semi-positive tiles; no capping (maximum 0 in
\* the MK script) or a maximum the tiles do not exceed
LongListInputs ==
    LET aK == {T1, T2, T3, T4, T5}
        gK == {G1, G3}
    IN \E v \in {"MK", "BDAG"}, train \in {<<0, 1>>, <<1, 2>>, <<1, 1>>},
          c2 \in {"none", "semi"}, c3 \in {"none", "semi"}, max \in {0, MaxCap} :
          Loaded(InputOf(v, ArgsOf(v, max, <<1, 1>>, train), aK \cup gK,
                         ManifestOf(aK, gK,
                                    [q \in gK \X aK |->
                                        IF q[2] = T1 THEN "positive"
                                        ELSE IF q[1] = G1 THEN "semi"
                                        ELSE IF q[2] = T2 THEN c2
                                        ELSE IF q[2] = T3 THEN c3
                                        ELSE "none"],
                                    [g \in gK |-> Wide])))

(***************************************************************************)
(* The script prepare-transgeo.py                                          *)
(***************************************************************************)
Init ==
    \/ GraphInputs
    \/ NameInputs
    \/ SplitInputs
    \/ DistractionInputs
    \/ SharedKeyInputs
    \/ LongListInputs

\* mutant: only the upper bound is enforced
ClampAbove(p) == IF p[1] > p[2] THEN <<1, 1>> ELSE p

\* max(min(p, 1.0), 0)
Clamp(p) == IF p[1] > p[2] THEN <<1, 1>> ELSE IF p[1] < 0 THEN <<0, 1>> ELSE p

\* the proportions of the command lines tried, as clamped, and the lengths a
\* list of keys can have
Proportions == {<<0, 1>>, <<1, 5>>, <<1, 2>>, <<4, 5>>, <<1, 1>>}
Lengths == 0..Len(AerialOrder)

\* int(x * p) and int((1 - p) * x) in float arithmetic, for the proportions and
\* lengths above (computed once)
IntTimesTable ==
    [p \in Proportions, x \in Lengths |-> IntOfFloat(FloatTimes(FloatOf(p), x))]
IntTimesComplementTable ==
    [p \in Proportions, x \in Lengths |->
        IntOfFloat(FloatTimes(FloatOneMinus(FloatOf(p)), x))]

\* int(x * p), p a proportion num/den as written on the command line
IntTimes(x, p) == IntTimesTable[p, x]

\* int((1 - p) * x)
IntTimesComplement(x, p) == IntTimesComplementTable[p, x]

\* argument handling and json.load
Start ==
    /\ pc = "start"
    /\ args' = [args EXCEPT !.distraction_proportion = Clamp(@),
                            !.train_proportion = Clamp(@)]
    /\ manifest' = manifest_file
    /\ pc' = IF variant = "MK" THEN "duplicates" ELSE "panoramas"
    /\ UNCHANGED <<image_correspondences, sols_in_training, argv, variant, disk, manifest_file, pruned, idx, panorama_sample, aerial_images,
                   ground_images, sols, train_set, test_set, train_string,
                   test_string, zf, files, stderr, output>>

\* MK: Remove duplicate images
Duplicates ==
    /\ pc = "duplicates"
    /\ manifest' = RemoveDuplicates(manifest)
    /\ pruned' = pruned \cup CallsEither(manifest, DuplicateKeys(manifest))
    /\ pc' = "spaces"
    /\ UNCHANGED <<image_correspondences, sols_in_training, argv, variant, args, disk, manifest_file, idx, panorama_sample, aerial_images,
                   ground_images, sols, train_set, test_set, train_string,
                   test_string, zf, files, stderr, output>>

\* MK: Remove images with spaces in their names
Spaces ==
    /\ pc = "spaces"
    /\ manifest' = RemoveSpaces(manifest)
    /\ pruned' = pruned \cup CallsEither(manifest, SpaceKeys(manifest))
    /\ pc' = "panoramas"
    /\ UNCHANGED <<image_correspondences, sols_in_training, argv, variant, args, disk, manifest_file, idx, panorama_sample, aerial_images,
                   ground_images, sols, train_set, test_set, train_string,
                   test_string, zf, files, stderr, output>>

\* Remove non-panoramas
Panoramas ==
    /\ pc = "panoramas"
    /\ manifest' = RemoveNonPanoramas(manifest, args.panorama_aspect_ratio)
    /\ pruned' = pruned \cup GroundCalls(NonPanoramaKeys(manifest, args.panorama_aspect_ratio))
    /\ pc' = "cap"
    /\ idx' = 1
    /\ UNCHANGED <<image_correspondences, sols_in_training, argv, variant, args, disk, manifest_file, panorama_sample, aerial_images,
                   ground_images, sols, train_set, test_set, train_string,
                   test_string, zf, files, stderr, output>>

\* Enforce maximum panoramas per aerial: one iteration of the loop
Cap ==
    /\ pc = "cap"
    /\ idx <= Len(AerialKeys(manifest))
    /\ LET a == AerialKeys(manifest)[idx]
           positive == manifest.aerial[a].positive
       IN IF OverCap(variant, positive, args.max_positive_panoramas)
          THEN \E sample \in Arrangements(Range(positive), args.max_positive_panoramas) :
                  /\ panorama_sample' = sample
                  /\ manifest' = CapTile(manifest, a, sample)
                  /\ pruned' = pruned \cup GroundCalls(Leftovers(positive, sample))
          ELSE UNCHANGED <<panorama_sample, manifest, pruned>>
    /\ idx' = idx + 1
    /\ UNCHANGED <<image_correspondences, sols_in_training, argv, variant, args, disk, manifest_file, pc, aerial_images, ground_images, sols,
                   train_set, test_set, train_string, test_string, zf, files, stderr, output>>

\* the capping loop ends
CapEnd ==
    /\ pc = "cap"
    /\ idx > Len(AerialKeys(manifest))
    /\ pc' = "distractions"
    /\ UNCHANGED <<image_correspondences, sols_in_training, argv, variant, args, disk, manifest_file, pruned, manifest, idx, panorama_sample, aerial_images,
                   ground_images, sols, train_set, test_set, train_string,
                   test_string, zf, files, stderr, output>>

\* Remove distractions
RemoveDistractions ==
    /\ pc = "distractions"
    /\ LET distractions == Distractions(manifest)
           remove_count == IntTimesComplement(Len(distractions), args.distraction_proportion)
       IN \E picked \in Arrangements(Range(distractions), remove_count) :
              /\ manifest' = RemoveAllAerial(manifest, picked)
              /\ pruned' = pruned \cup AerialCalls(picked)
    /\ pc' = IF variant = "MK" THEN "few_semi" ELSE "zip_aerial"
    /\ UNCHANGED <<image_correspondences, sols_in_training, argv, variant, args, disk, manifest_file, idx, panorama_sample, aerial_images,
                   ground_images, sols, train_set, test_set, train_string,
                   test_string, zf, files, stderr, output>>

\* MK: Remove ground images with less than 3 semi-positive aerial images
FewSemi ==
    /\ pc = "few_semi"
    /\ manifest' = RemoveFewSemi(manifest)
    /\ pruned' = pruned \cup GroundCalls(FewSemiKeys(manifest))
    /\ pc' = "zip_aerial"
    /\ UNCHANGED <<image_correspondences, sols_in_training, argv, variant, args, disk, manifest_file, idx, panorama_sample, aerial_images,
                   ground_images, sols, train_set, test_set, train_string,
                   test_string, zf, files, stderr, output>>

\* Add aerial / satellite images, and the satellite list
ZipAerial ==
    /\ pc = "zip_aerial"
    /\ aerial_images' = Existing(AerialKeys(manifest), disk)
    /\ zf' = zf \o ImageMembers("satellite", aerial_images')
                \o <<[member |-> "satellite_list", name |-> <<>>]>>
    /\ pc' = "zip_ground"
    /\ UNCHANGED <<image_correspondences, sols_in_training, argv, variant, args, disk, manifest_file, pruned, manifest, idx, panorama_sample, ground_images,
                   sols, train_set, test_set, train_string, test_string, files, stderr, output>>

\* mutant: a ground image whose file is missing is also dropped from the manifest
ZipGroundDropsMissing ==
    /\ pc = "zip_ground"
    /\ ground_images' = Existing(GroundKeys(manifest), disk)
    /\ zf' = zf \o ImageMembers("panorama", ground_images')
    /\ manifest' = RemoveAllGround(manifest,
                                   SelectSeq(GroundKeys(manifest), LAMBDA g : g \notin disk))
    /\ pc' = "split"
    /\ UNCHANGED <<image_correspondences, sols_in_training, argv, variant, args, disk, manifest_file, pruned, idx,
                   panorama_sample, aerial_images, sols, train_set, test_set,
                   train_string, test_string, files, stderr, output>>

\* Add ground / panorama images
ZipGround ==
    /\ pc = "zip_ground"
    /\ ground_images' = Existing(GroundKeys(manifest), disk)
    /\ zf' = zf \o ImageMembers("panorama", ground_images')
    /\ pc' = "split"
    /\ UNCHANGED <<image_correspondences, sols_in_training, argv, variant, args, disk, manifest_file, pruned, manifest, idx, panorama_sample, aerial_images,
                   sols, train_set, test_set, train_string, test_string, files, stderr, output>>

\* MK: the sol-based split
SplitBySol ==
    /\ pc = "split"
    /\ variant = "MK"
    /\ \A g \in DOMAIN manifest.ground : HasSol(g)
    /\ sols_in_training' = IntTimes(Cardinality(SolSet(manifest)), args.train_proportion)
    /\ \E shuffled \in Arrangements(SolSet(manifest), sols_in_training') :
           /\ sols' = shuffled
           /\ train_set' = TrainBySol(manifest, shuffled)
           /\ test_set' = TestBySol(manifest, shuffled)
    /\ pc' = "train"
    /\ UNCHANGED <<image_correspondences, argv, variant, args, disk, manifest_file, pruned, manifest, idx, panorama_sample, aerial_images,
                   ground_images, train_string, test_string, zf, files, stderr, output>>

\* MK: re.findall(...)[0] raises IndexError on a key without a sol segment;
\* the exception leaves the with-block and ends the run
SplitBySolFails ==
    /\ pc = "split"
    /\ variant = "MK"
    /\ \E g \in DOMAIN manifest.ground : ~HasSol(g)
    /\ pc' = "crashed"
    /\ UNCHANGED <<image_correspondences, sols_in_training, argv, variant, args, disk, manifest_file, pruned, manifest, idx, panorama_sample, aerial_images,
                   ground_images, sols, train_set, test_set, train_string,
                   test_string, zf, files, stderr, output>>

\* BDAG: the random split of the archived ground images; the two sets are
\* Python sets, iterated in an order the program does not fix
SplitRandom ==
    /\ pc = "split"
    /\ variant = "BDAG"
    /\ LET count == IntTimes(Len(ground_images), args.train_proportion)
       IN \E train \in Arrangements(Range(ground_images), count) :
             LET rest == TestByDifference(manifest, ground_images, Range(train))
             IN \E test \in Arrangements(rest, Cardinality(rest)) :
                    /\ train_set' = train
                    /\ test_set' = test
    /\ pc' = "train"
    /\ UNCHANGED <<image_correspondences, sols_in_training, argv, variant, args, disk, manifest_file, pruned, manifest, idx, panorama_sample, aerial_images,
                   ground_images, sols, train_string, test_string, zf, files, stderr, output>>

\* Train splits file
WriteTrain ==
    /\ pc = "train"
    /\ train_string' = SplitText(manifest, train_set, variant = "MK")
    /\ zf' = Append(zf, [member |-> "train", name |-> <<>>])
    /\ pc' = "test"
    /\ UNCHANGED <<image_correspondences, sols_in_training, argv, variant, args, disk, manifest_file, pruned, manifest, idx, panorama_sample, aerial_images,
                   ground_images, sols, train_set, test_set, test_string, files, stderr, output>>

\* Test splits file
WriteTest ==
    /\ pc = "test"
    /\ test_string' = SplitText(manifest, test_set, FALSE)
    /\ zf' = Append(zf, [member |-> "test", name |-> <<>>])
    /\ pc' = "manifest"
    /\ UNCHANGED <<image_correspondences, sols_in_training, argv, variant, args, disk, manifest_file, pruned, manifest, idx, panorama_sample, aerial_images,
                   ground_images, sols, train_set, test_set, train_string, files, stderr, output>>

\* mutant: the manifest file as it was read is written
DumpsInput(m) == manifest_file

\* json.dumps(manifest, indent=4): the text holds the dictionary as it is
Dumps(m) == m

\* Add manifest
WriteManifest ==
    /\ pc = "manifest"
    /\ zf' = Append(zf, [member |-> "manifest", name |-> <<>>, content |-> Dumps(manifest)])
    /\ pc' = "done"
    /\ UNCHANGED <<image_correspondences, sols_in_training, argv, variant, args, disk, manifest_file, pruned, manifest, idx, panorama_sample, aerial_images,
                   ground_images, sols, train_set, test_set, train_string,
                   test_string, files, stderr, output>>

Next ==
    \/ Start
    \/ Duplicates
    \/ Spaces
    \/ Panoramas
    \/ Cap
    \/ CapEnd
    \/ RemoveDistractions
    \/ FewSemi
    \/ ZipAerial
    \/ ZipGround
    \/ SplitBySol
    \/ SplitBySolFails
    \/ SplitRandom
    \/ WriteTrain
    \/ WriteTest
    \/ WriteManifest

Spec == Init /\ [][Next]_vars

(***************************************************************************)
(* The number of training sols of prepare-transgeo.py (MK), for manifests  *)
(* of many sols                                                            *)
(***************************************************************************)
\* int(int(len(sols)) * args.train_proportion), in float arithmetic
SolsInTraining(n, p) == IntOfFloat(FloatTimes(FloatOf(p), n))

\* the train proportions tried
TrainProportions == {<<0, 1>>, <<1, 4>>, <<1, 2>>, <<29, 50>>, <<1, 1>>}

\* the key of a ground image taken on sol j < 100
SolKey(j) ==
    LET digit(d) == CHOOSE c \in Digits : DigitVal(c) = d
    IN <<"_", "0", "0", digit(j \div 10), digit(j % 10), "_", "x">>

\* a curated manifest of n ground images of n sols, each semi-positive for the
\* tiles T2, T3 and T4
EpisodeManifest(n) ==
    [aerial |-> [a \in {T2, T3, T4} |->
        [positive |-> <<>>, semi_positive |-> [j \in 1..n |-> SolKey(j)],
         center |-> CenterOf(a)]],
     ground |-> [g \in {SolKey(j) : j \in 1..n} |->
        [positive |-> <<>>, semi_positive |-> <<T2, T3, T4>>, size |-> Wide,
         location |-> LocationOf(G1)]]]

\* an MK run on such a manifest, none of whose files is on disk, when the
\* image loops are over (line 165): no pass has pruned anything
InitCount ==
    \E n \in 0..MaxSols, p \in TrainProportions :
        /\ variant = "MK"
        /\ argv = ArgsOf("MK", MaxCap, <<1, 1>>, p)
        /\ args = argv
        /\ disk = {}
        /\ manifest_file = EpisodeManifest(n)
        /\ manifest = manifest_file
        /\ pruned = {}
        /\ pc = "split"
        /\ idx = 4
        /\ panorama_sample = <<>>
        /\ aerial_images = <<>>
        /\ ground_images = <<>>
        /\ sols = <<>>
        /\ sols_in_training = 0
        /\ image_correspondences = <<>>
        /\ train_set = <<>>
        /\ test_set = <<>>
        /\ train_string = <<>>
        /\ test_string = <<>>
        /\ zf = <<[member |-> "satellite_list", name |-> <<>>]>>
        /\ files = <<>>
        /\ stderr = <<>>
        /\ output = <<>>

\* Create list of all sols, remove duplicate sols, count the training sols
\* (up to the shuffle)
CountSols ==
    /\ pc = "split"
    /\ variant = "MK"
    /\ \A g \in DOMAIN manifest.ground : HasSol(g)
    /\ sols_in_training' = SolsInTraining(Cardinality(SolSet(manifest)),
                                          args.train_proportion)
    /\ pc' = "shuffle"
    /\ UNCHANGED <<image_correspondences, argv, variant, args, disk, manifest_file, pruned, manifest, idx,
                   panorama_sample, aerial_images, ground_images, sols, train_set,
                   test_set, train_string, test_string, zf, files, stderr, output>>

SpecCount == InitCount /\ [][CountSols]_vars

(***************************************************************************)
(* The script image-manifest.py (Manifest Builder)                         *)
(***************************************************************************)
\* ord(c) of the characters of a coordinate
Ord(c) == IF c = "-" THEN 45 ELSE IF c = "." THEN 46 ELSE 48 + DigitVal(c)

\* Python's s <= t on strings: lexicographic by code point, a proper prefix first
RECURSIVE StrLE(_, _)
StrLE(s, t) ==
    IF s = <<>> THEN TRUE
    ELSE IF t = <<>> THEN FALSE
    ELSE IF Ord(Head(s)) < Ord(Head(t)) THEN TRUE
    ELSE IF Ord(Head(s)) > Ord(Head(t)) THEN FALSE
    ELSE StrLE(Tail(s), Tail(t))

\* \d+
IsDigits(s) == Len(s) > 0 /\ \A j \in 1..Len(s) : s[j] \in Digits

\* -?\d+\.\d+
IsCoordinate(s) ==
    LET body == IF Len(s) > 0 /\ s[1] = "-" THEN Tail(s) ELSE s
    IN \E dot \in 1..Len(body) :
          /\ body[dot] = "."
          /\ IsDigits(SubSeq(body, 1, dot - 1))
          /\ IsDigits(SubSeq(body, dot + 1, Len(body)))

\* the number a coordinate string denotes, in hundredths (at most two decimals)
Hundredths(s) ==
    LET negative == s[1] = "-"
        body == IF negative THEN Tail(s) ELSE s
        dot == CHOOSE j \in 1..Len(body) : body[j] = "."
        decimals == SubSeq(body, dot + 1, Len(body))
        magnitude == 100 * IntOf(SubSeq(body, 1, dot - 1))
                     + (IF Len(decimals) = 1 THEN 10 * IntOf(decimals) ELSE IntOf(decimals))
    IN IF negative THEN 0 - magnitude ELSE magnitude

\* aerial_label_re.match(name): the name is the "_"-separated fields before ".png"
AerialLabelMatches(label) ==
    /\ Len(label) = 11
    /\ IsDigits(label[1])
    /\ \A j \in 2..11 : IsCoordinate(label[j])

\* ground_label_re.match(name): "LAT_" lat "LONG_" lon ... ".png"
GroundLabelMatches(label) ==
    /\ Len(label) = 2
    /\ IsCoordinate(label[1])
    /\ IsCoordinate(label[2])

\* the aerial item of a matching label (groups are strings)
AerialItem(label) ==
    [id |-> label[1],
     center |-> [lon |-> label[2], lat |-> label[3]],
     positive_boundary |-> <<[lon |-> label[4], lat |-> label[5]],
                             [lon |-> label[6], lat |-> label[7]]>>,
     semi_positive_boundary |-> <<[lon |-> label[8], lat |-> label[9]],
                                  [lon |-> label[10], lat |-> label[11]]>>,
     positive |-> <<>>,
     semi_positive |-> <<>>]

\* the ground item of a matching label
GroundItem(label, size) ==
    [size |-> size,
     location |-> [lon |-> label[2], lat |-> label[1]],
     positive |-> <<>>,
     semi_positive |-> <<>>]

\* min <= x <= max on numbers
NumberInBox(location, boundary) ==
    /\ Hundredths(boundary[1].lon) <= Hundredths(location.lon)
    /\ Hundredths(location.lon) <= Hundredths(boundary[2].lon)
    /\ Hundredths(boundary[2].lat) <= Hundredths(location.lat)
    /\ Hundredths(location.lat) <= Hundredths(boundary[1].lat)

\* the chained comparisons of is_positive / is_semi_positive, on the strings
InBox(location, boundary) ==
    /\ StrLE(boundary[1].lon, location.lon)
    /\ StrLE(location.lon, boundary[2].lon)
    /\ StrLE(boundary[2].lat, location.lat)
    /\ StrLE(location.lat, boundary[1].lat)

is_positive(ground_item, aerial_item) ==
    InBox(ground_item.location, aerial_item.positive_boundary)

is_semi_positive(ground_item, aerial_item) ==
    InBox(ground_item.location, aerial_item.semi_positive_boundary)

\* if is_positive(...): ... elif is_semi_positive(...): ...
ClassOf(ground_item, aerial_item) ==
    IF is_positive(ground_item, aerial_item) THEN "positive"
    ELSE IF is_semi_positive(ground_item, aerial_item) THEN "semi"
    ELSE "none"

\* mutant: only the ground item's list gets the edge
AppendGroundSide(m, ground_key, k, class) ==
    IF class = "positive"
    THEN [m EXCEPT !.ground[ground_key].positive = Append(@, k)]
    ELSE IF class = "semi"
    THEN [m EXCEPT !.ground[ground_key].semi_positive = Append(@, k)]
    ELSE m

\* the two appends of one branch of the inner loop
AppendBoth(m, ground_key, k, class) ==
    IF class = "positive"
    THEN [m EXCEPT !.ground[ground_key].positive = Append(@, k),
                   !.aerial[k].positive = Append(@, ground_key)]
    ELSE IF class = "semi"
    THEN [m EXCEPT !.ground[ground_key].semi_positive = Append(@, k),
                   !.aerial[k].semi_positive = Append(@, ground_key)]
    ELSE m

\* for k, aerial_item in manifest["aerial"].items(): over the keys ks still to visit
RECURSIVE Correspond(_, _, _)
Correspond(m, ground_key, ks) ==
    IF ks = <<>> THEN m
    ELSE Correspond(AppendBoth(m, ground_key, Head(ks),
                               ClassOf(m.ground[ground_key], m.aerial[Head(ks)])),
                    ground_key, Tail(ks))

\* manifest["ground"][ground_key] = the new item (a new key goes last)
WithGround(m, ground_key, item) ==
    [m EXCEPT !.ground = [g \in DOMAIN m.ground \cup {ground_key} |->
                             IF g = ground_key THEN item ELSE m.ground[g]]]

\* manifest["aerial"][key] = the new item
WithAerial(m, key, item) ==
    [m EXCEPT !.aerial = [a \in DOMAIN m.aerial \cup {key} |->
                             IF a = key THEN item ELSE m.aerial[a]]]

\* coordinates of the file names tried
Lon9_0 == <<"9", ".", "0">>
Lon9_5 == <<"9", ".", "5">>
Lon9_7 == <<"9", ".", "7">>
Lon10_0 == <<"1", "0", ".", "0">>
Lon10_5 == <<"1", "0", ".", "5">>
Lon11_0 == <<"1", "1", ".", "0">>
Lon11_5 == <<"1", "1", ".", "5">>
Lon12_0 == <<"1", "2", ".", "0">>
Lon12_5 == <<"1", "2", ".", "5">>
Lon1_5 == <<"1", ".", "5">>
LonM1_0 == <<"-", "1", ".", "0">>
LonM1_5 == <<"-", "1", ".", "5">>
LonM2_0 == <<"-", "2", ".", "0">>
LonM2_5 == <<"-", "2", ".", "5">>
LonM3_0 == <<"-", "3", ".", "0">>
Lat49_0 == <<"4", "9", ".", "0">>
Lat50_0 == <<"5", "0", ".", "0">>
Lat50_4 == <<"5", "0", ".", "4">>
Lat50_5 == <<"5", "0", ".", "5">>
Lat51_0 == <<"5", "1", ".", "0">>
Lat51_5 == <<"5", "1", ".", "5">>
Lat52_0 == <<"5", "2", ".", "0">>

\* <id>_<center lon>_<center lat>_<min pos lon>_<max pos lat>_<max pos lon>_<min pos lat>_
\* <min semi lon>_<max semi lat>_<max semi lon>_<min semi lat>.png
TileLabel(center, min_pos, max_pos, min_semi, max_semi) ==
    <<<<"1">>, center, Lat50_5, min_pos, Lat51_0, max_pos, Lat50_0,
      min_semi, Lat52_0, max_semi, Lat49_0>>

AerialLabels ==
    {TileLabel(Lon10_5, Lon10_0, Lon11_0, Lon9_0, Lon12_0),
     TileLabel(Lon10_0, Lon9_5, Lon10_5, Lon1_5, Lon12_5),
     TileLabel(LonM2_0, LonM2_5, LonM1_5, LonM3_0, LonM1_0),
     TileLabel(Lon10_5, Lon10_0, Lon11_5, Lon9_0, Lon12_5),
     <<<<"x">>>>}

GroundLabels ==
    {<<lat, lon>> : lat \in {Lat50_4, Lat51_5}, lon \in {Lon10_0, Lon9_7, Lon11_5, LonM2_0}}
    \cup {<<<<"5">>, Lon10_0>>}

\* a directory listing: the j-th file has the j-th key and one of the labels
Listings(order, labels, n) ==
    {[j \in 1..n |-> [key |-> order[j], label |-> l[j]]] : l \in [1..n -> labels]}

\* file names in one directory differ
Distinct(listing) ==
    \A j, k \in 1..Len(listing) : j # k => listing[j].label # listing[k].label

InitBuild ==
    /\ \E n \in 0..MaxAerialFiles :
       \E aerial_files \in Listings(AerialOrder, AerialLabels, n),
          ground_files \in Listings(GroundOrder, GroundLabels, NumGroundFiles) :
              /\ Distinct(aerial_files)
              /\ files = [aerial |-> aerial_files, ground |-> ground_files]
    /\ manifest = [aerial |-> <<>>, ground |-> <<>>]
    /\ manifest_file = <<>>
    /\ pruned = {}
    /\ pc = "aerial_files"
    /\ idx = 1
    /\ stderr = <<>>
    /\ output = <<>>
    /\ variant = "builder"
    /\ argv = <<>>
    /\ args = <<>>
    /\ disk = {}
    /\ panorama_sample = <<>>
    /\ aerial_images = <<>>
    /\ ground_images = <<>>
    /\ sols = <<>>
    /\ sols_in_training = 0
    /\ image_correspondences = <<>>
    /\ train_set = <<>>
    /\ test_set = <<>>
    /\ train_string = <<>>
    /\ test_string = <<>>
    /\ zf = <<>>

\* Get labelled aerial images: one iteration
BuildAerial ==
    /\ pc = "aerial_files"
    /\ idx <= Len(files.aerial)
    /\ LET file == files.aerial[idx]
       IN IF AerialLabelMatches(file.label)
          THEN /\ manifest' = WithAerial(manifest, file.key, AerialItem(file.label))
               /\ UNCHANGED stderr
          ELSE /\ stderr' = Append(stderr, file.key)
               /\ UNCHANGED manifest
    /\ idx' = idx + 1
    /\ UNCHANGED <<image_correspondences, sols_in_training, argv, variant, args, disk, manifest_file, pruned, pc, panorama_sample, aerial_images,
                   ground_images, sols, train_set, test_set, train_string,
                   test_string, zf, files, output>>

\* the aerial loop ends
BuildAerialEnd ==
    /\ pc = "aerial_files"
    /\ idx > Len(files.aerial)
    /\ pc' = "ground_files"
    /\ idx' = 1
    /\ UNCHANGED <<image_correspondences, sols_in_training, argv, variant, args, disk, manifest_file, pruned, manifest, panorama_sample, aerial_images,
                   ground_images, sols, train_set, test_set, train_string,
                   test_string, zf, files, stderr, output>>

\* Get labelled ground images: one iteration with a matching label
BuildGround ==
    /\ pc = "ground_files"
    /\ idx <= Len(files.ground)
    /\ GroundLabelMatches(files.ground[idx].label)
    /\ LET file == files.ground[idx]
       IN manifest' = Correspond(WithGround(manifest, file.key, GroundItem(file.label, Wide)),
                                 file.key, AerialKeys(manifest))
    /\ idx' = idx + 1
    /\ UNCHANGED <<image_correspondences, sols_in_training, argv, variant, args, disk, manifest_file, pruned, pc, panorama_sample, aerial_images,
                   ground_images, sols, train_set, test_set, train_string,
                   test_string, zf, files, stderr, output>>

\* a ground label that does not match: the message names aerial_image_path, the
\* last path of the aerial loop
BuildGroundSkip ==
    /\ pc = "ground_files"
    /\ idx <= Len(files.ground)
    /\ ~GroundLabelMatches(files.ground[idx].label)
    /\ files.aerial # <<>>
    /\ stderr' = Append(stderr, files.aerial[Len(files.aerial)].key)
    /\ idx' = idx + 1
    /\ UNCHANGED <<image_correspondences, sols_in_training, argv, variant, args, disk, manifest_file, pruned, manifest, pc, panorama_sample, aerial_images,
                   ground_images, sols, train_set, test_set, train_string,
                   test_string, zf, files, output>>

\* no aerial file was listed: aerial_image_path is unbound and the message
\* raises NameError
BuildGroundSkipFails ==
    /\ pc = "ground_files"
    /\ idx <= Len(files.ground)
    /\ ~GroundLabelMatches(files.ground[idx].label)
    /\ files.aerial = <<>>
    /\ pc' = "crashed"
    /\ UNCHANGED <<image_correspondences, sols_in_training, argv, variant, args, disk, manifest_file, pruned, manifest, idx, panorama_sample, aerial_images,
                   ground_images, sols, train_set, test_set, train_string,
                   test_string, zf, files, stderr, output>>

\* mutant: the file is opened for appending
FileAppend(old, text) ==
    IF old = <<>> THEN text
    ELSE [aerial |-> text.aerial, ground |-> text.ground, before |-> old]

\* open(args.output, "w"): what the file held before is lost
FileWrite(old, text) == text

\* json.dump(manifest, f)
BuildWrite ==
    /\ pc = "ground_files"
    /\ idx > Len(files.ground)
    /\ output' = FileWrite(output, manifest)
    /\ pc' = "written"
    /\ UNCHANGED <<image_correspondences, sols_in_training, argv, variant, args, disk, manifest_file, pruned, manifest, idx, panorama_sample, aerial_images,
                   ground_images, sols, train_set, test_set, train_string,
                   test_string, zf, files, stderr>>

\* the script is run a second time on the same directories, in the same
\* listing order; manifest_file keeps a copy of what the first run wrote
BuildAgain ==
    /\ pc = "written"
    /\ manifest_file = <<>>
    /\ manifest_file' = output
    /\ manifest' = [aerial |-> <<>>, ground |-> <<>>]
    /\ stderr' = <<>>
    /\ pc' = "aerial_files"
    /\ idx' = 1
    /\ UNCHANGED <<image_correspondences, sols_in_training, argv, variant, args, disk, pruned, panorama_sample, aerial_images,
                   ground_images, sols, train_set, test_set, train_string,
                   test_string, zf, files, output>>

NextBuild ==
    \/ BuildAgain
    \/ BuildAerial
    \/ BuildAerialEnd
    \/ BuildGround
    \/ BuildGroundSkip
    \/ BuildGroundSkipFails
    \/ BuildWrite

SpecBuild == InitBuild /\ [][NextBuild]_vars

(***************************************************************************)
(* The script image_correspondinator.py (tile / ground correlation)        *)
(***************************************************************************)
\* Images correspond if ground lon, lat coordinates are within aerial
\* coordinates: the chained comparisons, on the strings the regex groups hold
check_image_correspondence(ground, aerial) ==
    /\ StrLE(aerial.min_lon, ground.lon) /\ StrLE(ground.lon, aerial.max_lon)
    /\ StrLE(aerial.min_lat, ground.lat) /\ StrLE(ground.lat, aerial.max_lat)

\* the two directories are listed: aerial names are the fields
\* <tile id>_<min lat>_<max lat>_<min lon>_<max lon>, ground names the fields
\* <lat>_<lon> and stand in a directory named after their size
InitCorrelate ==
    /\ LET tiles == {<<<<"1">>, Lat50_0, Lat51_0, Lon10_0, Lon11_0>>,
                     <<<<"2">>, Lat50_0, Lat51_0, Lon9_5, Lon10_5>>,
                     <<<<"3">>, Lat50_0, Lat52_0, Lon10_0, Lon12_0>>,
                     <<<<"x">>>>}
           panoramas == {<<lat, lon>> : lat \in {Lat50_4, Lat51_5}, lon \in {Lon10_5, Lon11_5}}
                        \cup {<<<<"5">>, Lon10_5>>}
           S640 == <<"6", "4", "0", "x", "4", "8", "0">>
           S320 == <<"3", "2", "0", "x", "2", "4", "0">>
           Raw == <<"r", "a", "w">>
           sizes == {[j \in 1..NumGroundFiles |-> S640],
                     [j \in 1..NumGroundFiles |-> IF j = 2 THEN S320 ELSE S640],
                     [j \in 1..NumGroundFiles |-> IF j = 1 THEN Raw ELSE S640]}
       IN \E n \in 0..MaxAerialFiles :
          \E aerial_files \in Listings(AerialOrder, tiles, n),
             ground_files \in Listings(GroundOrder, panoramas, NumGroundFiles),
             size \in sizes :
                 /\ Distinct(aerial_files)
                 /\ files = [aerial |-> aerial_files,
                             ground |-> [j \in 1..NumGroundFiles |->
                                            [key |-> ground_files[j].key,
                                             label |-> ground_files[j].label,
                                             size |-> size[j]]]]
    /\ image_correspondences = <<>>
    /\ aerial_images = <<>>
    /\ ground_images = <<>>
    /\ stderr = <<>>
    /\ output = <<>>
    /\ pc = "labels"
    /\ idx = 1
    /\ variant = "correlator"
    /\ manifest = <<>>
    /\ manifest_file = <<>>
    /\ pruned = {}
    /\ argv = <<>>
    /\ args = <<>>
    /\ disk = {}
    /\ panorama_sample = <<>>
    /\ sols = <<>>
    /\ sols_in_training = 0
    /\ train_set = <<>>
    /\ test_set = <<>>
    /\ train_string = <<>>
    /\ test_string = <<>>
    /\ zf = <<>>

\* Get labelled aerial images, then get labelled ground images: the two
\* dictionaries as their items in insertion order; a file whose directory is
\* no size or whose name does not match is reported and left out
ReadLabels ==
    /\ pc = "labels"
    /\ LET aerial_match(file) ==
               /\ Len(file.label) = 5
               /\ IsDigits(file.label[1])
               /\ \A j \in 2..5 : IsCoordinate(file.label[j])
           size_match(size) ==
               \E x \in 2..(Len(size) - 1) :
                   /\ size[x] = "x"
                   /\ IsDigits(SubSeq(size, 1, x - 1))
                   /\ size[x + 1] \in Digits
           ground_match(file) ==
               /\ Len(file.label) = 2
               /\ IsCoordinate(file.label[1])
               /\ IsCoordinate(file.label[2])
           aerial_groups(file) ==
               [key |-> file.key,
                tile_id |-> file.label[1],
                min_lat |-> file.label[2], max_lat |-> file.label[3],
                min_lon |-> file.label[4], max_lon |-> file.label[5]]
           ground_groups(file) ==
               [key |-> file.key, lat |-> file.label[1], lon |-> file.label[2],
                size |-> file.size]
           kept_aerial == SelectSeq(files.aerial, aerial_match)
           kept_ground == SelectSeq(files.ground,
                                    LAMBDA f : size_match(f.size) /\ ground_match(f))
       IN /\ aerial_images' = [j \in 1..Len(kept_aerial) |-> aerial_groups(kept_aerial[j])]
          /\ ground_images' = [j \in 1..Len(kept_ground) |-> ground_groups(kept_ground[j])]
          /\ stderr' = [j \in 1..Len(SelectSeq(files.aerial, LAMBDA f : ~aerial_match(f))) |->
                           SelectSeq(files.aerial, LAMBDA f : ~aerial_match(f))[j].key]
                       \o [j \in 1..Len(SelectSeq(files.ground, LAMBDA f :
                                           ~(size_match(f.size) /\ ground_match(f)))) |->
                           SelectSeq(files.ground, LAMBDA f :
                                           ~(size_match(f.size) /\ ground_match(f)))[j].key]
    /\ pc' = "correlate"
    /\ idx' = 1
    /\ UNCHANGED <<image_correspondences, sols_in_training, argv, variant, args, disk,
                   manifest_file, pruned, manifest, panorama_sample, sols, train_set,
                   test_set, train_string, test_string, zf, files, output>>

\* Loop through aerial images: one iteration, with its loop through the ground
\* images. ground_images of the entry is the dictionary "ground-images",
\* keyed by size and then by ground path; line 88 stores
\* ground_image_values["lon"] under "lat"
CorrelateAerial ==
    /\ pc = "correlate"
    /\ idx <= Len(aerial_images)
    /\ LET aerial_image_values == aerial_images[idx]
           found == SelectSeq(ground_images,
                              LAMBDA g : check_image_correspondence(g, aerial_image_values))
           entry == [tile_id |-> aerial_image_values.tile_id,
                     size |-> <<"6", "4", "0", "x", "6", "4", "0">>,
                     min_lon |-> aerial_image_values.min_lon,
                     max_lon |-> aerial_image_values.max_lon,
                     min_lat |-> aerial_image_values.min_lat,
                     max_lat |-> aerial_image_values.max_lat,
                     ground_images |->
                         [s \in {g.size : g \in Range(found)} |->
                             [p \in {g.key : g \in {h \in Range(found) : h.size = s}} |->
                                 LET ground_image_values ==
                                         CHOOSE g \in Range(found) : g.key = p
                                 IN [lon |-> ground_image_values.lon,
                                     lat |-> ground_image_values.lon]]]]
       IN image_correspondences' =
              [k \in DOMAIN image_correspondences \cup {aerial_image_values.key} |->
                  IF k = aerial_image_values.key THEN entry ELSE image_correspondences[k]]
    /\ idx' = idx + 1
    /\ UNCHANGED <<sols_in_training, argv, variant, args, disk, manifest_file, pruned,
                   manifest, pc, panorama_sample, aerial_images, ground_images, sols,
                   train_set, test_set, train_string, test_string, zf, files, stderr,
                   output>>

\* json.dump(image_correspondences, f) once the loop is over
CorrelateWrite ==
    /\ pc = "correlate"
    /\ idx > Len(aerial_images)
    /\ output' = FileWrite(output, image_correspondences)
    /\ pc' = "written"
    /\ UNCHANGED <<image_correspondences, sols_in_training, argv, variant, args, disk,
                   manifest_file, pruned, manifest, idx, panorama_sample, aerial_images,
                   ground_images, sols, train_set, test_set, train_string, test_string,
                   zf, files, stderr>>

SpecCorrelate == InitCorrelate /\ [][ReadLabels \/ CorrelateAerial \/ CorrelateWrite]_vars

(***************************************************************************)
(* Properties                                                              *)
(***************************************************************************)
\* g and a name each other in the same kind of list, or in neither
Consistent(m) ==
    \A g \in DOMAIN m.ground, a \in DOMAIN m.aerial :
        /\ Contains(m.aerial[a].positive, g) <=> Contains(m.ground[g].positive, a)
        /\ Contains(m.aerial[a].semi_positive, g) <=> Contains(m.ground[g].semi_positive, a)

\* ground key g is no key and in no list of any tile
GroundGone(m, g) ==
    /\ g \notin DOMAIN m.ground
    /\ \A a \in DOMAIN m.aerial :
          ~Contains(m.aerial[a].positive, g) /\ ~Contains(m.aerial[a].semi_positive, g)

\* aerial key a is no key and in no list of any ground image
AerialGone(m, a) ==
    /\ a \notin DOMAIN m.aerial
    /\ \A g \in DOMAIN m.ground :
          ~Contains(m.ground[g].positive, a) /\ ~Contains(m.ground[g].semi_positive, a)

AfterAPass == pc \in {"spaces", "panoramas", "cap", "distractions", "few_semi", "zip_aerial"}

AfterSplit == pc \in {"train", "test", "manifest", "done"}

\* C1: after each curation pass (and after each iteration of the capping loop)
\* every remaining ground image g and tile a name each other in the positive
\* lists or in neither, and likewise in the semi-positive lists.
TheoremC1 == AfterAPass => Consistent(manifest)

\* an MK run after its six passes in which the capping pruned a ground image and
\* a ground image that is positive for a tile is left
WitnessC1 ==
    /\ variant = "MK"
    /\ pc = "zip_aerial"
    /\ panorama_sample # <<>>
    /\ \E c \in pruned : c.kind = "ground"
    /\ \E g \in DOMAIN manifest.ground : manifest.ground[g].positive # <<>>

\* the manifest as loaded or as a pass (or an iteration of the capping loop)
\* left it: every manifest of a run is met in such a state
BetweenPasses == pc = "duplicates" \/ AfterAPass

\* C2: a key the prune helpers were called with is no key of its map and is in
\* no positive and no semi-positive list of the other map; and on every manifest
\* the run reaches, each helper applied to any key X leaves X in no list.
TheoremC2 ==
    /\ \A c \in pruned :
          IF c.kind = "ground" THEN GroundGone(manifest, c.key)
          ELSE AerialGone(manifest, c.key)
    /\ BetweenPasses =>
          /\ \A X \in DOMAIN manifest.ground :
                 GroundGone(remove_ground_image(manifest, X), X)
          /\ \A X \in DOMAIN manifest.aerial :
                 AerialGone(remove_aerial_image(manifest, X), X)

\* G1 was positive for T1 and T2 in the input, was pruned, and both tiles remain
WitnessC2 ==
    /\ [kind |-> "ground", key |-> G1] \in pruned
    /\ pc # "start"
    /\ Contains(manifest_file.aerial[T1].positive, G1)
    /\ Contains(manifest_file.aerial[T2].positive, G1)
    /\ {T1, T2} \subseteq DOMAIN manifest.aerial

\* what one iteration of the capping loop does to a tile whose positive list is
\* longer than the maximum, when capped says that the claim speaks of the run
CapStepRemovesLeftovers(capped) ==
    (pc = "cap" /\ idx <= Len(AerialKeys(manifest)) /\ idx' = idx + 1) =>
        LET a == AerialKeys(manifest)[idx]
            before == manifest.aerial[a].positive
            max == args.max_positive_panoramas
        IN (Len(before) > max /\ capped) =>
              /\ Len(manifest'.aerial[a].positive) = max
              /\ Range(manifest'.aerial[a].positive) \subseteq Range(before)
              /\ \A g \in Range(before) \ Range(manifest'.aerial[a].positive) :
                    GroundGone(manifest', g)

\* C3 as stated: in the capping pass, for every tile whose positive list is
\* longer than the configured maximum, every ground image outside the sample of
\* that size is gone from the manifest: no ground key, in no list of any tile.
OriginalC3 == [][CapStepRemovesLeftovers(TRUE)]_vars

\* C3 amended: the same, for every maximum m >= 1, and for m = 0 in the BDAG
\* script; the MK script draws no sample and removes nothing when m = 0.
CapStepRemovesLeftoversEntirely ==
    /\ CapStepRemovesLeftovers(~(variant = "MK" /\ args.max_positive_panoramas = 0))
    /\ (pc = "cap" /\ idx <= Len(AerialKeys(manifest)) /\ idx' = idx + 1
        /\ variant = "MK" /\ args.max_positive_panoramas = 0) =>
            manifest' = manifest

TheoremC3 == [][CapStepRemovesLeftoversEntirely]_vars

\* a ground image that was semi-positive for T2 in the input was pruned as a
\* leftover of the capping, and T2 is still a tile
WitnessC3 ==
    /\ pc = "cap"
    /\ panorama_sample # <<>>
    /\ T2 \in DOMAIN manifest.aerial
    /\ \E c \in pruned :
          /\ c.kind = "ground"
          /\ Contains(manifest_file.aerial[T2].semi_positive, c.key)
          /\ Contains(manifest_file.aerial[T1].positive, c.key)

\* C4 as stated: after the capping pass every tile has at most m positives, for
\* every m >= 0.
OriginalC4 ==
    pc \in {"distractions", "few_semi", "zip_aerial"} =>
        \A a \in DOMAIN manifest.aerial :
            Len(manifest.aerial[a].positive) <= args.max_positive_panoramas

\* C4 amended: after the capping pass every tile has at most m positives, for
\* every m >= 1, and for m = 0 in the BDAG script; the MK script does not cap
\* when m = 0.
TheoremC4 ==
    (pc \in {"distractions", "few_semi", "zip_aerial"}
     /\ ~(variant = "MK" /\ args.max_positive_panoramas = 0)) =>
        \A a \in DOMAIN manifest.aerial :
            Len(manifest.aerial[a].positive) <= args.max_positive_panoramas

\* the capping pass has ended and cut a tile that had more positives than m
WitnessC4 ==
    /\ pc = "distractions"
    /\ \E a \in DOMAIN manifest.aerial :
          /\ Len(manifest_file.aerial[a].positive) > args.max_positive_panoramas
          /\ Len(manifest.aerial[a].positive) = args.max_positive_panoramas
    /\ \E c \in pruned : c.kind = "ground"

\* C8 as stated: train and test are disjoint and together are all ground keys of
\* the curated manifest, also when files are missing on disk.
OriginalC8 ==
    AfterSplit =>
        /\ Range(train_set) \cap Range(test_set) = {}
        /\ Range(train_set) \cup Range(test_set) = DOMAIN manifest.ground

\* C8 amended: train and test are disjoint; together they are all ground keys of
\* the curated manifest in the MK script, and the ground keys of the curated
\* manifest whose file exists on disk in the BDAG script.
TheoremC8 ==
    AfterSplit =>
        /\ Range(train_set) \cap Range(test_set) = {}
        /\ Range(train_set) \cup Range(test_set) =
              IF variant = "MK" THEN DOMAIN manifest.ground
              ELSE DOMAIN manifest.ground \cap disk

\* a BDAG split with a retained ground image missing on disk and both sets filled
WitnessC8 ==
    /\ AfterSplit
    /\ variant = "BDAG"
    /\ DOMAIN manifest.ground \ disk # {}
    /\ train_set # <<>>
    /\ test_set # <<>>

\* C9: in the MK split two ground images with the same sol number are in the
\* same set.
TheoremC9 ==
    (AfterSplit /\ variant = "MK") =>
        \A g, h \in DOMAIN manifest.ground :
            SolNum(g) = SolNum(h) =>
                /\ Contains(train_set, g) <=> Contains(train_set, h)
                /\ Contains(test_set, g) <=> Contains(test_set, h)

\* G1 and G2 share sol 1 and are in the train set while G3 is in the test set
WitnessC9 ==
    /\ AfterSplit
    /\ variant = "MK"
    /\ Contains(train_set, G1)
    /\ Contains(train_set, G2)
    /\ Contains(test_set, G3)

\* the lines of a split file that start with ground image g
LinesOf(text, g) ==
    Cardinality({j \in 1..Len(text) : text[j].kind = "positive" /\ text[j].ground_key = g})

\* C10 as stated: every ground image of a split has exactly one line in its file.
OriginalC10 ==
    pc = "done" =>
        /\ \A g \in Range(train_set) : LinesOf(train_string, g) = 1
        /\ \A g \in Range(test_set) : LinesOf(test_string, g) = 1

\* C10 amended: every ground image of a split has one line per tile of its
\* positive list, so none when the list is empty; and no line is written for
\* an image outside the split.
TheoremC10 ==
    pc = "done" =>
        /\ \A g \in Range(train_set) :
              LinesOf(train_string, g) = Len(manifest.ground[g].positive)
        /\ \A g \in Range(test_set) :
              LinesOf(test_string, g) = Len(manifest.ground[g].positive)
        /\ \A j \in 1..Len(train_string) : Contains(train_set, train_string[j].ground_key)
        /\ \A j \in 1..Len(test_string) : Contains(test_set, test_string[j].ground_key)

\* a finished run with a train image that is positive for two tiles and a test
\* image that is positive for none
WitnessC10 ==
    /\ pc = "done"
    /\ \E g \in Range(train_set) : Len(manifest.ground[g].positive) = 2
    /\ \E g \in Range(test_set) : manifest.ground[g].positive = <<>>

(***************************************************************************)
(* Properties of the Manifest Builder                                      *)
(***************************************************************************)
\* C5: at every point of the build every ground image g and tile a name each
\* other in the positive lists or in neither, and likewise in the semi-positive
\* lists.
TheoremC5 == Consistent(manifest)

\* a written manifest with a ground image that is positive for two tiles
WitnessC5 ==
    /\ pc = "written"
    /\ \E g \in DOMAIN manifest.ground : Len(manifest.ground[g].positive) = 2

\* C6 as stated: no pair is in both kinds of list, and a ground point inside the
\* positive and the semi-positive rectangle of a tile is in the positive lists
\* of the pair and not in the semi-positive ones.
OriginalC6 ==
    pc = "written" =>
        \A g \in DOMAIN manifest.ground, a \in DOMAIN manifest.aerial :
            /\ ~(Contains(manifest.ground[g].positive, a)
                 /\ Contains(manifest.ground[g].semi_positive, a))
            /\ ~(Contains(manifest.aerial[a].positive, g)
                 /\ Contains(manifest.aerial[a].semi_positive, g))
            /\ (NumberInBox(manifest.ground[g].location, manifest.aerial[a].positive_boundary)
                /\ NumberInBox(manifest.ground[g].location,
                               manifest.aerial[a].semi_positive_boundary)) =>
                  /\ Contains(manifest.ground[g].positive, a)
                  /\ Contains(manifest.aerial[a].positive, g)
                  /\ ~Contains(manifest.ground[g].semi_positive, a)
                  /\ ~Contains(manifest.aerial[a].semi_positive, g)

\* C7 as stated: a ground image is positive for a tile exactly when its point is
\* in the positive rectangle as numbers, and a point outside both rectangles
\* has no correspondence.
OriginalC7 ==
    pc = "written" =>
        \A g \in DOMAIN manifest.ground, a \in DOMAIN manifest.aerial :
            /\ Contains(manifest.ground[g].positive, a) <=>
                  NumberInBox(manifest.ground[g].location,
                              manifest.aerial[a].positive_boundary)
            /\ (~NumberInBox(manifest.ground[g].location,
                             manifest.aerial[a].positive_boundary)
                /\ ~NumberInBox(manifest.ground[g].location,
                                manifest.aerial[a].semi_positive_boundary)) =>
                  /\ ~Contains(manifest.ground[g].positive, a)
                  /\ ~Contains(manifest.ground[g].semi_positive, a)

(***************************************************************************)
(* Properties of the curation passes                                       *)
(***************************************************************************)
\* the entries of a manifest in the order "aerial keys, then ground keys"
Entries(m) ==
    [j \in 1..Len(AerialKeys(m)) |-> [kind |-> "aerial", key |-> AerialKeys(m)[j]]]
    \o [j \in 1..Len(GroundKeys(m)) |-> [kind |-> "ground", key |-> GroundKeys(m)[j]]]

\* entry e is still an entry of m
Present(m, e) ==
    IF e.kind = "aerial" THEN e.key \in DOMAIN m.aerial ELSE e.key \in DOMAIN m.ground

\* entry j of the input is the first one with its base name
FirstOfItsName(es, j) == \A i \in 1..(j - 1) : PathName(es[i].key) # PathName(es[j].key)

\* C11 as stated: after the deduplication pass the entries that remain are
\* exactly the first occurrences of their base names in the order "aerial keys,
\* then ground keys", also when a key string is in both maps.
OriginalC11 ==
    (variant = "MK" /\ pc = "spaces") =>
        LET es == Entries(manifest_file)
        IN \A j \in 1..Len(es) : Present(manifest, es[j]) <=> FirstOfItsName(es, j)

AfterCuration ==
    pc \in {"zip_aerial", "zip_ground", "split", "train", "test", "manifest", "done", "crashed"}

\* C12: in the MK script, from the end of the minimum-correspondence pass on
\* (archive, split, split files) every ground image of the manifest has at
\* least 3 semi-positive tiles; and on every manifest of a run, removing a
\* ground image leaves every other ground image's item as it was.
TheoremC12 ==
    /\ (variant = "MK" /\ AfterCuration) =>
           \A g \in DOMAIN manifest.ground : Len(manifest.ground[g].semi_positive) >= 3
    /\ BetweenPasses =>
           \A g \in DOMAIN manifest.ground :
               LET n == remove_ground_image(manifest, g)
               IN \A h \in DOMAIN manifest.ground \ {g} : n.ground[h] = manifest.ground[h]

\* the split files of an MK run are being written; a ground image with 2
\* semi-positive tiles was pruned and one with at least 3 is in the manifest
WitnessC12 ==
    /\ variant = "MK"
    /\ pc = "train"
    /\ DOMAIN manifest.ground # {}
    /\ \E c \in pruned :
          /\ c.kind = "ground"
          /\ Len(manifest_file.ground[c.key].semi_positive) = 2

\* the tiles the distraction pass removes in a step
RemovedTiles == DOMAIN manifest.aerial \ DOMAIN manifest'.aerial

\* C13 as stated: the distraction pass removes exactly floor((1 - p) * n) tiles,
\* n the number of tiles with both lists empty when the pass starts and p the
\* keep proportion; every removed tile is one of the n; none is removed when
\* p = 1 and all n when p = 0.
DistractionStepRemovesFloor ==
    (pc = "distractions" /\ pc' # "distractions") =>
        LET d == Range(Distractions(manifest))
            n == Cardinality(d)
            p == args.distraction_proportion
        IN /\ RemovedTiles \subseteq d
           /\ Cardinality(RemovedTiles) = (n * (p[2] - p[1])) \div p[2]
           /\ p = <<1, 1>> => RemovedTiles = {}
           /\ p = <<0, 1>> => RemovedTiles = d

OriginalC13 == [][DistractionStepRemovesFloor]_vars

\* w / h of a ground image of the input is below, or equal to, the threshold
Narrow(g) ==
    manifest_file.ground[g].size.w * args.panorama_aspect_ratio[2]
        < args.panorama_aspect_ratio[1] * manifest_file.ground[g].size.h

AtThreshold(g) ==
    manifest_file.ground[g].size.w * args.panorama_aspect_ratio[2]
        = args.panorama_aspect_ratio[1] * manifest_file.ground[g].size.h

\* the panorama pass keeps exactly the ground images with w / h >= threshold
\* and every tile
PanoramaStepFiltersByRatio ==
    (pc = "panoramas" /\ pc' = "cap") =>
        /\ DOMAIN manifest'.ground = {g \in DOMAIN manifest.ground : ~Narrow(g)}
        /\ DOMAIN manifest'.aerial = DOMAIN manifest.aerial

\* C14: the panorama-filtering pass removes a ground image if and only if its
\* width / height is strictly below the threshold: every ground image left has
\* w / h >= threshold, none with w / h >= threshold was removed, and no tile
\* was removed.
TheoremC14 == [][PanoramaStepFiltersByRatio]_vars

\* the pass has just run on a manifest no earlier pass pruned: it pruned a
\* ground image below the threshold and kept one exactly at the threshold
WitnessC14 ==
    /\ pc = "cap"
    /\ idx = 1
    /\ DOMAIN manifest_file.ground = {G1, G3}
    /\ DOMAIN manifest.aerial = DOMAIN manifest_file.aerial
    /\ \E c \in pruned : c.kind = "ground" /\ c.key \in DOMAIN manifest_file.ground
                          /\ Narrow(c.key)
    /\ \E g \in DOMAIN manifest.ground : AtThreshold(g)

HasSpace(k) == CountSpaces(PathName(k)) > 0

AfterSpaces == pc \in {"panoramas", "cap", "distractions", "few_semi"} \/ AfterCuration

\* C15: in the MK script, once the name-sanitation pass has run, no key of the
\* manifest has a space in its base name, and every entry of the input whose
\* base name has a space is gone from its map and from every list of the
\* other map, also when its key is in both maps.
TheoremC15 ==
    (variant = "MK" /\ AfterSpaces) =>
        /\ \A k \in DOMAIN manifest.aerial \cup DOMAIN manifest.ground : ~HasSpace(k)
        /\ \A k \in DOMAIN manifest_file.aerial : HasSpace(k) => AerialGone(manifest, k)
        /\ \A k \in DOMAIN manifest_file.ground : HasSpace(k) => GroundGone(manifest, k)

\* the pass has just run on an input that held the key GS, with a space, in
\* both maps; the ground GS was positive for T1, the tile GS was positive for
\* G1, and T1 and G1 are still in the manifest
WitnessC15 ==
    /\ variant = "MK"
    /\ pc = "panoramas"
    /\ GS \in DOMAIN manifest_file.aerial \cap DOMAIN manifest_file.ground
    /\ Contains(manifest_file.aerial[T1].positive, GS)
    /\ Contains(manifest_file.ground[G1].positive, GS)
    /\ T1 \in DOMAIN manifest.aerial
    /\ G1 \in DOMAIN manifest.ground

\* C16 as stated: two runs on the same manifest with the same configuration
\* produce the same curated manifest and the same train and test sets.  Apart
\* from its random draws a run is a function of its input, so two such runs
\* agree exactly when, in every state a run reaches, every outcome of the draw
\* made there gives the same manifest (capping, distractions) and the same
\* sets (split).
OriginalC16 ==
    /\ (pc = "cap" /\ idx <= Len(AerialKeys(manifest))) =>
           LET a == AerialKeys(manifest)[idx]
               positive == manifest.aerial[a].positive
           IN OverCap(variant, positive, args.max_positive_panoramas) =>
                 \A s1, s2 \in Arrangements(Range(positive), args.max_positive_panoramas) :
                     CapTile(manifest, a, s1) = CapTile(manifest, a, s2)
    /\ pc = "distractions" =>
           LET d == Distractions(manifest)
               remove_count == IntTimesComplement(Len(d), args.distraction_proportion)
           IN \A s1, s2 \in Arrangements(Range(d), remove_count) :
                  RemoveAllAerial(manifest, s1) = RemoveAllAerial(manifest, s2)
    /\ (pc = "split" /\ variant = "MK" /\ \A g \in DOMAIN manifest.ground : HasSol(g)) =>
           LET n == IntTimes(Cardinality(SolSet(manifest)), args.train_proportion)
           IN \A s1, s2 \in Arrangements(SolSet(manifest), n) :
                  /\ Range(TrainBySol(manifest, s1)) = Range(TrainBySol(manifest, s2))
                  /\ Range(TestBySol(manifest, s1)) = Range(TestBySol(manifest, s2))
    /\ (pc = "split" /\ variant = "BDAG") =>
           LET n == IntTimes(Len(ground_images), args.train_proportion)
           IN \A s1, s2 \in Arrangements(Range(ground_images), n) :
                  Range(s1) = Range(s2)

\* a proportion of the command line is outside [0, 1]
OutOfRange(p) == p[1] < 0 \/ p[1] > p[2]

\* the proportion of [0, 1] nearest to p
NearestInRange(p) ==
    IF p[1] < 0 THEN <<0, 1>> ELSE IF p[1] > p[2] THEN <<1, 1>> ELSE p

BadProportions ==
    OutOfRange(argv.distraction_proportion) \/ OutOfRange(argv.train_proportion)

\* C17 as stated: a run whose distraction or train proportion is outside
\* [0, 1] aborts at startup: it never gets past its first statements, its
\* manifest is never pruned and nothing is written to the archive.
OriginalC17 ==
    BadProportions => (pc = "start" /\ pruned = {} /\ zf = <<>>)

\* C17 amended: a proportion outside [0, 1] is no error: from startup on the
\* run uses the nearest bound (0 for a proportion below 0, 1 for one above 1)
\* in its place, a proportion inside [0, 1] is used as it is, and the run goes
\* through curation, archive and split like any other.
TheoremC17 ==
    pc # "start" =>
        /\ args.distraction_proportion = NearestInRange(argv.distraction_proportion)
        /\ args.train_proportion = NearestInRange(argv.train_proportion)
        /\ ~OutOfRange(args.distraction_proportion)
        /\ ~OutOfRange(args.train_proportion)
        /\ args.panorama_aspect_ratio = argv.panorama_aspect_ratio
        /\ args.max_positive_panoramas = argv.max_positive_panoramas

\* a run with train proportion -1/2 has ended: every ground image is in the
\* test set and the archive holds the split files and the manifest
WitnessC17 ==
    /\ pc = "done"
    /\ argv.train_proportion = <<-1, 2>>
    /\ train_set = <<>>
    /\ test_set # <<>>
    /\ \E j \in 1..Len(zf) : zf[j].member = "manifest"

\* the names of the image members of one kind written to the archive
Archived(kind) == {zf[j].name : j \in {i \in 1..Len(zf) : zf[i].member = kind}}

\* every name of a split file is the name of an archived image
NamesArchived(text) ==
    \A j \in 1..Len(text) :
        /\ text[j].ground_name \in Archived("panorama")
        /\ text[j].kind \in {"positive", "semi"} => text[j].aerial_name \in Archived("satellite")

\* C18 as stated: in a finished run every ground-image name and every tile
\* name on a line of the train or test split file is the name of an image
\* written into the archive, also when source files are missing on disk.
OriginalC18 ==
    pc = "done" => (NamesArchived(train_string) /\ NamesArchived(test_string))

(***************************************************************************)
(* Properties of the Manifest Builder: file names                          *)
(***************************************************************************)
\* the keys of the listed files whose name does not match the label grammar
Offending(listing, matches(_)) ==
    LET bad == SelectSeq(listing, LAMBDA file : ~matches(file.label))
    IN [j \in 1..Len(bad) |-> bad[j].key]

\* the keys of the listed files whose name matches
Matching(listing, matches(_)) ==
    {listing[j].key : j \in {i \in 1..Len(listing) : matches(listing[i].label)}}

\* C19 as stated: a file name that does not match the label grammar is a
\* recoverable skip for every input, also when the aerial directory holds no
\* .png file: the build never aborts, and when the manifest is written the
\* reports name exactly the offending files and the manifest has an entry for
\* exactly the other files.
OriginalC19 ==
    /\ pc # "crashed"
    /\ pc = "written" =>
           /\ stderr = Offending(files.aerial, AerialLabelMatches)
                           \o Offending(files.ground, GroundLabelMatches)
           /\ DOMAIN output.aerial = Matching(files.aerial, AerialLabelMatches)
           /\ DOMAIN output.ground = Matching(files.ground, GroundLabelMatches)

GroundPixel(entry) ==
    t_px(manifest.ground[entry.ground_key].location.lon,
         manifest.ground[entry.ground_key].location.lat)

TilePixel(entry) ==
    t_px(manifest.aerial[entry.aerial_key].center.lon,
         manifest.aerial[entry.aerial_key].center.lat)

\* the two fields after the tile name are the row difference, then the column
\* difference, of the two pixels, each given as (col, row)
RowThenColumn(entry) ==
    entry.offset = <<GroundPixel(entry)[2] - TilePixel(entry)[2],
                     GroundPixel(entry)[1] - TilePixel(entry)[1]>>

OffsetsRowThenColumn(text) ==
    \A j \in 1..Len(text) : text[j].kind \in {"positive", "semi"} => RowThenColumn(text[j])

\* the semi-positive entries written after the positive entry at place j, up
\* to the next entry that is none
SemisAfter(text, j) ==
    LET stop == CHOOSE k \in (j + 1)..(Len(text) + 1) :
                    /\ k = Len(text) + 1 \/ text[k].kind # "semi"
                    /\ \A i \in (j + 1)..(k - 1) : text[i].kind = "semi"
    IN SubSeq(text, j + 1, stop - 1)

\* the line that starts at place j holds the first min(3, n) tiles of the
\* ground image's semi-positive list, in list order, and then ends
FirstSemisOnLine(text, j) ==
    LET list == manifest.ground[text[j].ground_key].semi_positive
        n == Len(list)
        k == IF n < 3 THEN n ELSE 3
        semis == SemisAfter(text, j)
    IN /\ Len(semis) = k
       /\ \A i \in 1..k : /\ semis[i].aerial_key = list[i]
                            /\ semis[i].aerial_name = PathName(list[i])
                            /\ semis[i].ground_key = text[j].ground_key
       /\ j + k + 1 <= Len(text)
       /\ text[j + k + 1].kind = "newline"

FirstSemisOnLines(text) ==
    \A j \in 1..Len(text) : text[j].kind = "positive" => FirstSemisOnLine(text, j)

\* C22: on every line of the train and of the test split file the
\* semi-positive entries are the first min(3, n) entries of the ground image's
\* semi-positive list, in list order, n being the length of the list; the
\* line ends after them, whatever the list holds beyond the third.
TheoremC22 ==
    /\ pc \in {"test", "manifest", "done"} => FirstSemisOnLines(train_string)
    /\ pc \in {"manifest", "done"} => FirstSemisOnLines(test_string)

\* G1 has four semi-positive tiles and a line in the train file, G3 has two
\* and a line in the test file
WitnessC22 ==
    /\ pc = "done"
    /\ {G1, G3} \subseteq DOMAIN manifest.ground
    /\ Len(manifest.ground[G1].semi_positive) = 4
    /\ Len(manifest.ground[G3].semi_positive) = 2
    /\ LinesOf(train_string, G1) = 1
    /\ LinesOf(test_string, G3) = 1

\* every line of the text has the positive entry, three semi-positive entries
\* and the newline, and the text ends with a newline
ThreeSemisAndNewline(text) ==
    /\ \A j \in 1..Len(text) :
           text[j].kind = "positive" =>
               /\ j + 4 <= Len(text)
               /\ \A i \in 1..3 : text[j + i].kind = "semi"
               /\ text[j + 4].kind = "newline"
    /\ \A j \in 1..Len(text) :
           text[j].kind = "semi" => (j > 1 /\ text[j - 1].kind \in {"positive", "semi"})
    /\ text # <<>> => text[Len(text)].kind = "newline"

\* C24: in the MK script no image of the train set has fewer than 3
\* semi-positive tiles when the train file is written, so the "skipping"
\* branch is not taken, and every line of the train file and of the test file
\* ends with a newline and has exactly 3 semi-positive entries.
TheoremC24 ==
    variant = "MK" =>
        /\ pc \in {"train", "test", "manifest", "done"} =>
               \A g \in Range(train_set) : Len(manifest.ground[g].semi_positive) >= 3
        /\ pc \in {"test", "manifest", "done"} => ThreeSemisAndNewline(train_string)
        /\ pc \in {"manifest", "done"} => ThreeSemisAndNewline(test_string)

\* an MK run has written a line for G1, which has four semi-positive tiles,
\* into the train file; G3, with one positive and two semi-positive tiles in
\* the input, was pruned by the minimum-correspondence pass
WitnessC24 ==
    /\ variant = "MK"
    /\ pc = "done"
    /\ LinesOf(train_string, G1) = 1
    /\ G1 \in DOMAIN manifest.ground
    /\ Len(manifest.ground[G1].semi_positive) = 4
    /\ G3 \in DOMAIN manifest_file.ground
    /\ Len(manifest_file.ground[G3].semi_positive) = 2
    /\ Len(manifest_file.ground[G3].positive) = 1
    /\ [kind |-> "ground", key |-> G3] \in pruned

\* C25 as stated: in the MK script a ground key without a four-digit sol
\* segment is skipped: the run never aborts, the image is in neither split,
\* and the finished run has written both split files and the manifest.
OriginalC25 ==
    variant = "MK" =>
        /\ pc # "crashed"
        /\ AfterSplit =>
               \A g \in DOMAIN manifest.ground :
                   ~HasSol(g) => (~Contains(train_set, g) /\ ~Contains(test_set, g))
        /\ pc = "done" =>
               \A member \in {"train", "test", "manifest"} :
                   \E j \in 1..Len(zf) : zf[j].member = member

\* C26 as stated: the number of sols drawn for training is floor(|E| * p), E
\* the distinct sols of the manifest's ground images and p the train
\* proportion.
OriginalC26 ==
    pc = "shuffle" =>
        sols_in_training =
            (Cardinality(SolSet(manifest)) * args.train_proportion[1])
                \div args.train_proportion[2]

\* every key of a list of one map is a key of the other map
NoDangling(m) ==
    /\ \A a \in DOMAIN m.aerial :
           Range(m.aerial[a].positive) \cup Range(m.aerial[a].semi_positive)
               \subseteq DOMAIN m.ground
    /\ \A g \in DOMAIN m.ground :
           Range(m.ground[g].positive) \cup Range(m.ground[g].semi_positive)
               \subseteq DOMAIN m.aerial

\* the lookups manifest["ground"][g] and manifest["aerial"][k] the emitter makes
\* for the images of a split
LookupsSucceed(set) ==
    \A j \in 1..Len(set) :
        /\ set[j] \in DOMAIN manifest.ground
        /\ Range(manifest.ground[set[j]].positive) \subseteq DOMAIN manifest.aerial
        /\ Range(FirstThree(manifest.ground[set[j]].semi_positive))
               \subseteq DOMAIN manifest.aerial

\* C27: when the manifest file has no dangling reference, then after every
\* curation pass (and after each iteration of the capping loop, and until the
\* run ends) every key of a tile's lists is a ground key and every key of a
\* ground image's lists is a tile key, and every lookup the split emitter makes
\* for the train and the test set finds its key.
TheoremC27 ==
    NoDangling(manifest_file) =>
        /\ (AfterAPass \/ AfterCuration) => NoDangling(manifest)
        /\ pc \in {"train", "test"} => (LookupsSucceed(train_set) /\ LookupsSucceed(test_set))

\* a finished run in which tiles and ground images were pruned and a line was
\* written into the test file
WitnessC27 ==
    /\ pc = "done"
    /\ NoDangling(manifest_file)
    /\ \E c \in pruned : c.kind = "aerial"
    /\ \E c \in pruned : c.kind = "ground"
    /\ \E j \in 1..Len(test_string) : test_string[j].kind = "positive"

\* a list without the key X
Others(list, X) == SelectSeq(list, LAMBDA k : k # X)

\* item after is item before but for the occurrences of X in its two lists
SameButFor(before, after, X) ==
    /\ Others(after.positive, X) = Others(before.positive, X)
    /\ Others(after.semi_positive, X) = Others(before.semi_positive, X)
    /\ [after EXCEPT !.positive = <<>>, !.semi_positive = <<>>]
           = [before EXCEPT !.positive = <<>>, !.semi_positive = <<>>]

\* what remove_ground_image(X) must leave as it is
GroundFrame(m, X) ==
    LET n == remove_ground_image(m, X)
    IN /\ DOMAIN n.aerial = DOMAIN m.aerial
       /\ DOMAIN n.ground = DOMAIN m.ground \ {X}
       /\ \A h \in DOMAIN n.ground : n.ground[h] = m.ground[h]
       /\ \A a \in DOMAIN n.aerial : SameButFor(m.aerial[a], n.aerial[a], X)

\* what remove_aerial_image(X) must leave as it is
AerialFrame(m, X) ==
    LET n == remove_aerial_image(m, X)
    IN /\ DOMAIN n.ground = DOMAIN m.ground
       /\ DOMAIN n.aerial = DOMAIN m.aerial \ {X}
       /\ \A a \in DOMAIN n.aerial : n.aerial[a] = m.aerial[a]
       /\ \A g \in DOMAIN n.ground : SameButFor(m.ground[g], n.ground[g], X)

\* C28: on every manifest a curation pass works on, remove_ground_image(X)
\* leaves the tile keys, the item of every other ground image and, in every
\* tile's lists, the keys other than X in their order as they were; and
\* remove_aerial_image(X) likewise with the two maps exchanged.
TheoremC28 ==
    BetweenPasses =>
        /\ \A X \in DOMAIN manifest.ground : GroundFrame(manifest, X)
        /\ \A X \in DOMAIN manifest.aerial : AerialFrame(manifest, X)

\* a pass has pruned G2, which stood between G1 and G3 in the semi-positive
\* list of T3: the list now holds G1 and G3, in this order
WitnessC28 ==
    /\ BetweenPasses
    /\ [kind |-> "ground", key |-> G2] \in pruned
    /\ T3 \in DOMAIN manifest_file.aerial
    /\ manifest_file.aerial[T3].semi_positive = <<G1, G2, G3>>
    /\ T3 \in DOMAIN manifest.aerial
    /\ manifest.aerial[T3].semi_positive = <<G1, G3>>

\* the key sets of m are within those of the manifest file, and so is every
\* list of every item
WithinInput(m) ==
    /\ DOMAIN m.aerial \subseteq DOMAIN manifest_file.aerial
    /\ DOMAIN m.ground \subseteq DOMAIN manifest_file.ground
    /\ \A a \in DOMAIN m.aerial :
           /\ Range(m.aerial[a].positive) \subseteq Range(manifest_file.aerial[a].positive)
           /\ Range(m.aerial[a].semi_positive)
                  \subseteq Range(manifest_file.aerial[a].semi_positive)
    /\ \A g \in DOMAIN m.ground :
           /\ Range(m.ground[g].positive) \subseteq Range(manifest_file.ground[g].positive)
           /\ Range(m.ground[g].semi_positive)
                  \subseteq Range(manifest_file.ground[g].semi_positive)

\* no two entries of m have the same base name
UniqueNames(m) ==
    LET es == Entries(m)
    IN \A i, j \in 1..Len(es) : i # j => PathName(es[i].key) # PathName(es[j].key)

\* the postconditions of the name passes (MK) and of the panorama pass
NamesAndShapes(m) ==
    /\ variant = "MK" => UniqueNames(m)
    /\ variant = "MK" => \A k \in DOMAIN m.aerial \cup DOMAIN m.ground : ~HasSpace(k)
    /\ \A g \in DOMAIN m.ground : ~NonPanorama(m.ground[g].size, args.panorama_aspect_ratio)

AtMostMax(m) ==
    \A a \in DOMAIN m.aerial : Len(m.aerial[a].positive) <= args.max_positive_panoramas

\* C29 as stated: at every point of a run the key sets and the lists of the
\* manifest are within those of the manifest file, and the final manifest
\* still has unique base names, no space in a name, every ground image at or
\* above the aspect threshold, and at most the maximum of positives per tile.
OriginalC29 ==
    /\ WithinInput(manifest)
    /\ AfterCuration => (NamesAndShapes(manifest) /\ AtMostMax(manifest))

\* C29 amended: the same, the bound on the positives per tile holding for
\* every maximum m >= 1, and for m = 0 in the BDAG script; the MK script does
\* not cap when m = 0.
TheoremC29 ==
    /\ WithinInput(manifest)
    /\ AfterCuration =>
           /\ NamesAndShapes(manifest)
           /\ ~(variant = "MK" /\ args.max_positive_panoramas = 0) => AtMostMax(manifest)

\* an MK run has ended; the capping drew a sample and pruned ground images,
\* and ground images are left
WitnessC29 ==
    /\ variant = "MK"
    /\ pc = "done"
    /\ panorama_sample # <<>>
    /\ \E c \in pruned : c.kind = "ground"
    /\ \E g \in DOMAIN manifest.ground : manifest.ground[g].positive # <<>>
    /\ manifest # manifest_file

Packaging == pc \in {"zip_aerial", "zip_ground", "split", "train", "test", "manifest"}

\* a step of archive creation leaves the keys of both maps and the two lists of
\* every item as they are
PackagingStepReadsOnly ==
    Packaging =>
        /\ DOMAIN manifest'.aerial = DOMAIN manifest.aerial
        /\ DOMAIN manifest'.ground = DOMAIN manifest.ground
        /\ \A a \in DOMAIN manifest.aerial :
               /\ manifest'.aerial[a].positive = manifest.aerial[a].positive
               /\ manifest'.aerial[a].semi_positive = manifest.aerial[a].semi_positive
        /\ \A g \in DOMAIN manifest.ground :
               /\ manifest'.ground[g].positive = manifest.ground[g].positive
               /\ manifest'.ground[g].semi_positive = manifest.ground[g].semi_positive

\* C30: from the end of the last curation pass until the manifest is written
\* into the archive (image loops, split, split files, manifest member) no step
\* adds or removes a key of the manifest or changes a positive or
\* semi-positive list, in the MK and in the BDAG script.
TheoremC30 == [][PackagingStepReadsOnly]_vars

\* a finished run: images of the curated manifest were missing on disk and
\* skipped by the image loops, both split files have lines, and the manifest
\* still holds the skipped images
WitnessC30 ==
    /\ pc = "done"
    /\ DOMAIN manifest.ground \ disk # {}
    /\ DOMAIN manifest.aerial \ disk # {}
    /\ train_string # <<>>
    /\ test_string # <<>>
    /\ zf[Len(zf)].member = "manifest"

\* C23: for every tile named on a line of the train or the test split file the
\* two offset fields written after the tile name are the row difference and
\* then the column difference of toPixel(ground location) - toPixel(tile
\* center), toPixel giving (col, row).
TheoremC23 ==
    /\ pc \in {"test", "manifest", "done"} => OffsetsRowThenColumn(train_string)
    /\ pc \in {"manifest", "done"} => OffsetsRowThenColumn(test_string)

\* both files are written: the train file holds a positive and a semi-positive
\* tile whose row and column differences differ, and so does the test file
WitnessC23 ==
    /\ pc = "done"
    /\ \A text \in {train_string, test_string} :
          \A kind \in {"positive", "semi"} :
              \E j \in 1..Len(text) :
                  /\ text[j].kind = kind
                  /\ text[j].offset[1] # text[j].offset[2]

(***************************************************************************)
(* Properties of the correlation script                                    *)
(***************************************************************************)
\* the ground path is recorded under the tile, in the dictionary of some size
Recorded(tile, path) ==
    \E s \in DOMAIN image_correspondences[tile].ground_images :
        path \in DOMAIN image_correspondences[tile].ground_images[s]

\* what is stored for a recorded ground path
StoredFor(tile, path) ==
    LET s == CHOOSE t \in DOMAIN image_correspondences[tile].ground_images :
                 path \in DOMAIN image_correspondences[tile].ground_images[t]
    IN image_correspondences[tile].ground_images[s][path]

\* the tile's groups as the aerial loop parsed them
TileValues(tile) == CHOOSE a \in Range(aerial_images) : a.key = tile

\* a ground image is recorded under a tile exactly when the check succeeds
RecordedWhenContained ==
    \A tile \in DOMAIN image_correspondences :
        \A g \in Range(ground_images) :
            Recorded(tile, g.key) <=> check_image_correspondence(g, TileValues(tile))

\* the stored longitude is the longitude field of the ground file's name
StoredLonIsParsedLon ==
    \A tile \in DOMAIN image_correspondences :
        \A j \in 1..Len(files.ground) :
            Recorded(tile, files.ground[j].key) =>
                StoredFor(tile, files.ground[j].key).lon = files.ground[j].label[2]

\* the stored latitude is the latitude field of the ground file's name
StoredLatIsParsedLat ==
    \A tile \in DOMAIN image_correspondences :
        \A j \in 1..Len(files.ground) :
            Recorded(tile, files.ground[j].key) =>
                StoredFor(tile, files.ground[j].key).lat = files.ground[j].label[1]

\* C31 as stated: for every ground image recorded under an aerial tile the
\* stored "lon" is the longitude parsed from the ground file name and the
\* stored "lat" is the latitude parsed from it, and a ground image is recorded
\* under a tile exactly when the containment check for the pair succeeds.
OriginalC31 ==
    /\ StoredLonIsParsedLon
    /\ StoredLatIsParsedLat
    /\ RecordedWhenContained

(***************************************************************************)
(* Properties of the archive                                               *)
(***************************************************************************)
Archiving == pc \in {"zip_aerial", "zip_ground", "train", "test", "manifest"}

\* a step writes to the archive only once the passes are over, no step prunes
\* from then on, and a manifest member holds the manifest of that moment
ArchiveStepAfterCuration ==
    /\ zf' # zf => Archiving
    /\ AfterCuration => (manifest' = manifest /\ pruned' = pruned)
    /\ \A j \in 1..Len(zf') :
           zf'[j].member = "manifest" => (AfterCuration /\ zf'[j].content = manifest')

\* C20: in every run of prepare-transgeo.py the first write to the archive
\* comes after the last curation pass, nothing is pruned afterwards, and the
\* manifest written into the archive is the manifest as the last pass left it.
TheoremC20 == [][ArchiveStepAfterCuration]_vars

\* a finished run whose passes pruned entries: the archive ends with the
\* curated manifest, which differs from the manifest file read
WitnessC20 ==
    /\ pc = "done"
    /\ pruned # {}
    /\ manifest # manifest_file
    /\ zf[Len(zf)].member = "manifest"
    /\ zf[Len(zf)].content = manifest
    /\ \E j \in 1..Len(zf) : zf[j].member = "panorama"

====
